---- MODULE Spec2Model ----
(***************************************************************************)
(* Legacy data import engine of the POS back office                        *)
(* (backend/src/services/legacy-importer.ts and the submission route       *)
(* backend/src/routes/admin-legacy-import.ts).                             *)
(*                                                                         *)
(* Spec      : the job orchestrator (queue, worker loop, startup recovery, *)
(*             persisted job status), one action per await.                *)
(* SpecData  : the pipeline of runImport on the staging and core tables,   *)
(*             for successive jobs submitted with the same upload.         *)
(* SpecCrash : one job of that pipeline with process restarts.             *)
(* SpecSlots : the sales loop of migrateSales over one record, for every   *)
(*             population of its seven slots.                              *)
(* SpecFamilies : the same over a sales record and an open-order record    *)
(*             that share their order key.                                 *)
(* SpecScenario : one whole job for the export of the concrete scenario.   *)
(* SpecRows  : the sales and auxiliary migrators over records whose        *)
(*             references are known, unknown, blank or null.               *)
(* SpecLog   : one job with restarts and the status query on its log.      *)
(* FairSpec  : Spec when every awaited operation returns or throws.        *)
(***************************************************************************)
EXTENDS Integers, Sequences, FiniteSets, TLC

\* ------------------------------------------------------------------ bounds
MaxJobs == 2
MaxCrashes == 1
MaxDrainers == 2
MaxRuns == 2
MaxDCrashes == 1

JobIds == 1..MaxJobs
DrainerIds == 1..MaxDrainers

VARIABLES
  jobs,         \* system_legacy_import rows: job id -> persisted record
  jobQueue,     \* const jobQueue: LegacyImportJob[]
  processing,   \* let processing
  initialized,  \* let initialized
  initPc,       \* position of initializeLegacyImportWorker
  initRows,     \* rows returned by its select, not yet pushed
  route,        \* POST /import/legacy requests between insert and queueLegacyImport
  drainers,     \* processQueue invocations that passed the guard
  startedHere,  \* history: jobs this process lifetime has set to running
  recovered,    \* history: jobs re-enqueued by initializeLegacyImportWorker in this lifetime
  crashes,      \* number of process restarts so far
  db,           \* the core tables
  stg,          \* the staging tables
  djob,         \* the system_legacy_import row of the job being run
  dlog,         \* its system_legacy_import_log rows
  report,       \* the lines of its reconciliation report file
  pl,           \* runImport's position and locals for that job
  upload,       \* the files of the session directory
  ov,           \* job.overwrite
  run,          \* how many jobs have been submitted for this upload
  dcrashes,     \* restarts of the process during these jobs
  atStart,      \* history: db and stg when the current job was submitted
  prev          \* history: db and final status of the job before

orchVars == <<jobs, jobQueue, processing, initialized, initPc, initRows,
              route, drainers, startedHere, recovered, crashes>>

dataVars == <<db, stg, djob, dlog, report, pl, upload, ov, run, dcrashes, atStart, prev>>

vars == <<orchVars, dataVars>>

\* ---------------------------------------------------------------- helpers
NoJob == [status |-> "none", started_at |-> FALSE, finished_at |-> FALSE,
          report_path |-> FALSE, summary |-> FALSE, error_message |-> FALSE]

Idle == [pc |-> "off", job |-> 0]

Active(d) == drainers[d].pc # "off"

ActiveDrainers == {d \in DrainerIds : Active(d)}

FreeSlot == CHOOSE d \in DrainerIds : ~Active(d) /\ \A e \in DrainerIds : e < d => Active(e)

HasFreeSlot == \E d \in DrainerIds : ~Active(d)

\* `if (processing) return;` at the top of processQueue
CanStartDrain_m(proc) == TRUE
CanStartDrain(proc) == ~proc

\* ------------------------------------------------------------------- Init
OrchInit ==
  /\ jobs = [j \in JobIds |-> NoJob]
  /\ jobQueue = <<>>
  /\ processing = FALSE
  /\ initialized = TRUE          \* module load: void initializeLegacyImportWorker()
  /\ initPc = "schema"
  /\ initRows = <<>>
  /\ route = {}
  /\ drainers = [d \in DrainerIds |-> Idle]
  /\ startedHere = {}
  /\ recovered = {}
  /\ crashes = 0


\* ----------------------------------------------------------- processQueue
\* The synchronous part of a processQueue() call made with queue q: returns
\* at once when the flag is set; otherwise sets it and either shifts the
\* first job and suspends in runImport's first await, or finds the queue
\* empty and clears the flag again.
StartProcessQueue(q) ==
  IF ~CanStartDrain(processing) \/ ~HasFreeSlot
  THEN /\ jobQueue' = q
       /\ UNCHANGED <<processing, drainers>>
  ELSE IF q = <<>>
       THEN /\ jobQueue' = q
            /\ processing' = FALSE
            /\ UNCHANGED drainers
       ELSE /\ jobQueue' = Tail(q)
            /\ processing' = TRUE
            /\ drainers' = [drainers EXCEPT ![FreeSlot] =
                              [pc |-> "set_running", job |-> Head(q)]]

\* The while loop of processQueue after one job has ended (runImport
\* returned, or the catch block finished): next job, or clear the flag.
NextIteration_m(d) ==
  IF jobQueue # <<>>
  THEN /\ drainers' = [drainers EXCEPT ![d] =
                         [pc |-> "set_running", job |-> jobQueue[Len(jobQueue)]]]
       /\ jobQueue' = SubSeq(jobQueue, 1, Len(jobQueue) - 1)
       /\ UNCHANGED processing
  ELSE /\ drainers' = [drainers EXCEPT ![d] = Idle]
       /\ processing' = FALSE
       /\ UNCHANGED jobQueue
NextIteration(d) ==
  IF jobQueue # <<>>
  THEN /\ drainers' = [drainers EXCEPT ![d] =
                         [pc |-> "set_running", job |-> Head(jobQueue)]]
       /\ jobQueue' = Tail(jobQueue)
       /\ UNCHANGED processing
  ELSE /\ drainers' = [drainers EXCEPT ![d] = Idle]
       /\ processing' = FALSE
       /\ UNCHANGED jobQueue

\* An error thrown inside try { await runImport(job) }: enter the catch block.
Throw(d) ==
  drainers' = [drainers EXCEPT ![d].pc = "catch_log"]

\* ------------------------------------------------- submission route (POST)
\* insert into system_legacy_import (...) values (..., 'queued', ...)
Submit ==
  /\ \E j \in JobIds :
       /\ jobs[j].status = "none"
       /\ \A i \in JobIds : i < j => jobs[i].status # "none"
       /\ jobs' = [jobs EXCEPT ![j] = [NoJob EXCEPT !.status = "queued"]]
       /\ route' = route \cup {j}
  /\ UNCHANGED <<jobQueue, processing, initialized, initPc, initRows,
                 drainers, startedHere, recovered, crashes, dataVars>>

\* queueLegacyImport(job): jobQueue.push(job); void processQueue()
queueLegacyImport_m(j) ==
  /\ j \in route
  /\ route' = route \ {j}
  /\ jobQueue' = Append(jobQueue, j)
  /\ jobs' = [jobs EXCEPT ![j].status = "running", ![j].started_at = TRUE]
  /\ UNCHANGED <<processing, drainers, initialized, initPc, initRows, startedHere,
                 recovered, crashes, dataVars>>
queueLegacyImport(j) ==
  /\ j \in route
  /\ route' = route \ {j}
  /\ StartProcessQueue(Append(jobQueue, j))
  /\ UNCHANGED <<jobs, initialized, initPc, initRows, startedHere, recovered, crashes, dataVars>>

\* ------------------------------------------- initializeLegacyImportWorker
\* await ensureSchema()
InitSchema ==
  /\ initPc = "schema"
  /\ initPc' = "reset"
  /\ UNCHANGED <<jobs, jobQueue, processing, initialized, initRows, route,
                 drainers, startedHere, recovered, crashes, dataVars>>

\* update system_legacy_import set status = 'queued', started_at = null
\*   where status = 'running'
InitReset ==
  /\ initPc = "reset"
  /\ jobs' = [j \in JobIds |->
                IF jobs[j].status = "running"
                THEN [jobs[j] EXCEPT !.status = "queued", !.started_at = FALSE]
                ELSE jobs[j]]
  /\ initPc' = "select"
  /\ UNCHANGED <<jobQueue, processing, initialized, initRows, route,
                 drainers, startedHere, recovered, crashes, dataVars>>

\* the ids of the rows with status = 'queued', order by created_at
RECURSIVE QueuedFrom(_, _)
QueuedFrom(js, j) ==
  IF j > MaxJobs THEN <<>>
  ELSE (IF js[j].status = "queued" THEN <<j>> ELSE <<>>) \o QueuedFrom(js, j + 1)

InitSelect ==
  /\ initPc = "select"
  /\ initRows' = QueuedFrom(jobs, 1)
  /\ initPc' = "push"
  /\ UNCHANGED <<jobs, jobQueue, processing, initialized, route,
                 drainers, startedHere, recovered, crashes, dataVars>>

\* for (const row of rows) jobQueue.push(...); if (jobQueue.length) void processQueue()
InitPush ==
  /\ initPc = "push"
  /\ initPc' = "done"
  /\ recovered' = recovered \cup {initRows[i] : i \in 1..Len(initRows)}
  /\ initRows' = <<>>
  /\ IF jobQueue \o initRows # <<>>
     THEN StartProcessQueue(jobQueue \o initRows)
     ELSE UNCHANGED <<jobQueue, processing, drainers>>
  /\ UNCHANGED <<jobs, initialized, route, startedHere, crashes, dataVars>>

\* one of its awaited queries rejects: the function ends (void: unhandled)
InitFail ==
  /\ initPc \in {"schema", "reset", "select"}
  /\ initPc' = "dead"
  /\ UNCHANGED <<jobs, jobQueue, processing, initialized, initRows, route,
                 drainers, startedHere, recovered, crashes, dataVars>>

\* -------------------------------------------------------------- runImport
\* await updateImportStatus(job.id, 'running', { started_at })
SetRunning(d) ==
  /\ drainers[d].pc = "set_running"
  /\ LET j == drainers[d].job IN
       /\ jobs' = [jobs EXCEPT ![j].status = "running", ![j].started_at = TRUE]
       /\ startedHere' = startedHere \cup {j}
  /\ drainers' = [drainers EXCEPT ![d].pc = "log_prepare"]
  /\ UNCHANGED <<jobQueue, processing, initialized, initPc, initRows, route,
                 recovered, crashes, dataVars>>

\* await appendLog(job.id, 'info', 'Preparing legacy files for import')
LogPrepare(d) ==
  /\ drainers[d].pc = "log_prepare"
  /\ drainers' = [drainers EXCEPT ![d].pc = "stages"]
  /\ UNCHANGED <<jobs, jobQueue, processing, initialized, initPc, initRows, route,
                 startedHere, recovered, crashes, dataVars>>

\* lines 715-751 of runImport (file normalisation, required-file check,
\* staging load, migrators, report) run to their end; their effect on the
\* data tables is the subject of SpecData
RunStages(d) ==
  /\ drainers[d].pc = "stages"
  /\ drainers' = [drainers EXCEPT ![d].pc = "set_completed"]
  /\ UNCHANGED <<jobs, jobQueue, processing, initialized, initPc, initRows, route,
                 startedHere, recovered, crashes, dataVars>>

\* one of them throws (missing required file, decode error, database error)
RunStagesFail(d) ==
  /\ drainers[d].pc = "stages"
  /\ Throw(d)
  /\ UNCHANGED <<jobs, jobQueue, processing, initialized, initPc, initRows, route,
                 startedHere, recovered, crashes, dataVars>>

\* await updateImportStatus(job.id, 'completed', { finished_at, summary, report_path, error_message: null })
SetCompleted(d) ==
  /\ drainers[d].pc = "set_completed"
  /\ jobs' = [jobs EXCEPT ![drainers[d].job] =
                [@ EXCEPT !.status = "completed", !.finished_at = TRUE,
                          !.summary = TRUE, !.report_path = TRUE,
                          !.error_message = FALSE]]
  /\ drainers' = [drainers EXCEPT ![d].pc = "log_completed"]
  /\ UNCHANGED <<jobQueue, processing, initialized, initPc, initRows, route,
                 startedHere, recovered, crashes, dataVars>>

\* await appendLog(job.id, 'info', 'Legacy data import completed successfully');
\* runImport returns and the loop of processQueue goes on
LogCompleted(d) ==
  /\ drainers[d].pc = "log_completed"
  /\ NextIteration(d)
  /\ UNCHANGED <<jobs, initialized, initPc, initRows, route,
                 startedHere, recovered, crashes, dataVars>>

\* a status update or log insert of runImport rejects
WriteFail(d) ==
  /\ drainers[d].pc \in {"set_running", "log_prepare", "set_completed", "log_completed"}
  /\ Throw(d)
  /\ UNCHANGED <<jobs, jobQueue, processing, initialized, initPc, initRows,
                 route, startedHere, recovered, crashes, dataVars>>

\* ------------------------------------------- catch block of processQueue
\* await appendLog(job.id, 'error', message)
CatchLog(d) ==
  /\ drainers[d].pc = "catch_log"
  /\ drainers' = [drainers EXCEPT ![d].pc = "catch_update"]
  /\ UNCHANGED <<jobs, jobQueue, processing, initialized, initPc, initRows, route,
                 startedHere, recovered, crashes, dataVars>>

\* await updateImportStatus(job.id, 'failed', { finished_at, error_message })
CatchUpdate(d) ==
  /\ drainers[d].pc = "catch_update"
  /\ jobs' = [jobs EXCEPT ![drainers[d].job] =
                [@ EXCEPT !.status = "failed", !.finished_at = TRUE,
                          !.error_message = TRUE]]
  /\ NextIteration(d)
  /\ UNCHANGED <<initialized, initPc, initRows, route,
                 startedHere, recovered, crashes, dataVars>>

\* a write of the catch block rejects: processQueue itself rejects, leaving
\* the processing flag as it is
CatchFail(d) ==
  /\ drainers[d].pc \in {"catch_log", "catch_update"}
  /\ drainers' = [drainers EXCEPT ![d] = Idle]
  /\ UNCHANGED <<jobs, jobQueue, processing, initialized, initPc, initRows,
                 route, startedHere, recovered, crashes, dataVars>>

\* ------------------------------------------------------- process restart
\* The process dies and is started again: module state is rebuilt and the
\* module load calls initializeLegacyImportWorker; the database is kept.
Crash ==
  /\ crashes < MaxCrashes
  /\ crashes' = crashes + 1
  /\ jobQueue' = <<>>
  /\ processing' = FALSE
  /\ initialized' = TRUE
  /\ initPc' = "schema"
  /\ initRows' = <<>>
  /\ route' = {}
  /\ drainers' = [d \in DrainerIds |-> Idle]
  /\ startedHere' = {}
  /\ recovered' = {}
  /\ UNCHANGED <<jobs, dataVars>>

Next ==
  \/ Submit
  \/ \E j \in JobIds : queueLegacyImport(j)
  \/ InitSchema
  \/ InitReset
  \/ InitSelect
  \/ InitPush
  \/ InitFail
  \/ \E d \in DrainerIds : SetRunning(d)
  \/ \E d \in DrainerIds : LogPrepare(d)
  \/ \E d \in DrainerIds : RunStages(d)
  \/ \E d \in DrainerIds : RunStagesFail(d)
  \/ \E d \in DrainerIds : SetCompleted(d)
  \/ \E d \in DrainerIds : LogCompleted(d)
  \/ \E d \in DrainerIds : WriteFail(d)
  \/ \E d \in DrainerIds : CatchLog(d)
  \/ \E d \in DrainerIds : CatchUpdate(d)
  \/ \E d \in DrainerIds : CatchFail(d)
  \/ Crash


\* =========================================================================
\* Data side of the import: decoded values, staging text, core tables.
\* Text is a string, SQL NULL of a text column is NULL. The text of a
\* numeric column is a tuple of characters (<<>> for NULL or ''), a number
\* is an integer count of tenths, a nullable number <<>> or <<n>>.
\* =========================================================================
NULL == "<null>"

\* String.prototype.trim / SQL trim() on the text values of the model
Trim(t) ==
  CASE t = "G1 " -> "G1"
    [] t = " P2" -> "P2"
    [] t = " "   -> ""
    [] OTHER     -> t

Digits == <<"0", "1", "2", "3", "4", "5", "6", "7", "8", "9">>

IsDigit(c) == \E i \in 1..10 : Digits[i] = c

DigitVal(c) == (CHOOSE i \in 1..10 : Digits[i] = c) - 1

\* String(n) of a non-negative integer, as characters
RECURSIVE IntToText(_)
IntToText(n) ==
  IF n < 10 THEN <<Digits[n + 1]>>
  ELSE IntToText(n \div 10) \o <<Digits[(n % 10) + 1]>>

\* String(value) of a decoded number (tenths): "2", "1.5"
NumToText(v) ==
  IF v % 10 = 0 THEN IntToText(v \div 10)
  ELSE IntToText(v \div 10) \o <<".">> \o <<Digits[(v % 10) + 1]>>

\* String.prototype.replace(',', '.'): the first comma only
RECURSIVE ReplaceFirstComma(_)
ReplaceFirstComma(t) ==
  IF t = <<>> THEN <<>>
  ELSE IF Head(t) = "," THEN <<".">> \o Tail(t)
  ELSE <<Head(t)>> \o ReplaceFirstComma(Tail(t))

AllDigits(t) == \A i \in 1..Len(t) : IsDigit(t[i])

RECURSIVE DigitsToInt(_)
DigitsToInt(t) ==
  IF t = <<>> THEN 0
  ELSE DigitsToInt(SubSeq(t, 1, Len(t) - 1)) * 10 + DigitVal(t[Len(t)])

DotAt(t) == IF \E i \in 1..Len(t) : t[i] = "."
            THEN CHOOSE i \in 1..Len(t) : t[i] = "." /\ \A k \in 1..(i - 1) : t[k] # "."
            ELSE 0

\* Number(text) for digits with at most one '.', one fractional digit kept
\* (the model's numbers are tenths); anything else is NaN: <<>>
JsNumber(t) ==
  LET d == DotAt(t) IN
  IF t = <<>> THEN <<0>>
  ELSE IF d = 0
  THEN (IF AllDigits(t) THEN <<DigitsToInt(t) * 10>> ELSE <<>>)
  ELSE LET ip == SubSeq(t, 1, d - 1)
           fp == SubSeq(t, d + 1, Len(t))
       IN IF AllDigits(ip) /\ AllDigits(fp) /\ Len(ip) + Len(fp) > 0
          THEN <<DigitsToInt(ip) * 10 + (IF fp = <<>> THEN 0 ELSE DigitVal(fp[1]))>>
          ELSE <<>>

\* normalizeNumber on a staging text: null or '' is null, else
\* Number(String(value).replace(',', '.')) when finite
normalizeNumber(t) ==
  IF t = <<>> THEN <<>> ELSE JsNumber(ReplaceFirstComma(t))

\* value ?? 0
OrZero(n) == IF n = <<>> THEN 0 ELSE n[1]

\* normalizeString: null stays null, trimmed text, '' becomes null
normalizeString(t) ==
  IF t = NULL THEN NULL
  ELSE IF Trim(t) = "" THEN NULL ELSE Trim(t)

\* the date texts new Date(value) can parse
ValidDates == {"2020-01-02T00:00:00.000Z", "2020-01-03T00:00:00.000Z"}

\* normalizeDate on a staging text: a non-blank text that parses, else null
normalizeDate(t) ==
  IF t # NULL /\ Trim(t) # "" /\ t \in ValidDates THEN t ELSE NULL

\* ------------------------------------------------------- source manifest
NSlots == 7

Slots == 1..NSlots

REQUIRED_FILES == {"PRODUTO.DBF", "GRUPO.DBF", "CLIENTES.DBF", "VENDEDOR.DBF", "VENDAS.DBF"}

\* STAGING_CONFIG: file -> staging table, in the order of the array
STAGING_CONFIG == <<
  [file |-> "GRUPO.DBF",    table |-> "stg_grupo"],
  [file |-> "PRODUTO.DBF",  table |-> "stg_produto"],
  [file |-> "CLIENTES.DBF", table |-> "stg_clientes"],
  [file |-> "VENDEDOR.DBF", table |-> "stg_vendedor"],
  [file |-> "FORMA_PG.DBF", table |-> "stg_forma_pg"],
  [file |-> "VENDAS.DBF",   table |-> "stg_vendas"],
  [file |-> "PEDIDOS.DBF",  table |-> "stg_pedidos"],
  [file |-> "PAGAMENT.DBF", table |-> "stg_pagament"],
  [file |-> "MOV_EST.DBF",  table |-> "stg_mov_est"] >>

NConfigs == Len(STAGING_CONFIG)

AllFiles == {STAGING_CONFIG[i].file : i \in 1..NConfigs}

StagingTables == {STAGING_CONFIG[i].table : i \in 1..NConfigs}

EmptyStaging == [t \in StagingTables |-> <<>>]

\* the columns of a staging table that hold the text of a number
NumericColumns == {"total_gera", "vlr_pago", "qtde_mov"}

SlotTextColumns == {"cod"}

SlotNumericColumns == {"qtde", "vlr", "total"}

\* loadDbfIntoStaging, the value of one column: a Date as ISO text (dates
\* are carried as their ISO text), null as null, else String(value).trim()
StageText(v) == IF v = NULL THEN NULL ELSE Trim(v)

StageNumber(v) == IF v = <<>> THEN <<>> ELSE NumToText(v[1])

\* the insert of one decoded record into its staging table: every column
\* of the manifest by its own field
StageRecord(rec) ==
  [c \in DOMAIN rec |->
     IF c \in NumericColumns THEN StageNumber(rec[c])
     ELSE IF c \in SlotTextColumns THEN [i \in Slots |-> StageText(rec[c][i])]
     ELSE IF c \in SlotNumericColumns THEN [i \in Slots |-> StageNumber(rec[c][i])]
     ELSE StageText(rec[c])]

\* ------------------------------------------------------------ core tables
\* A table is the sequence of its rows in insertion order; id 0 is a null
\* reference; nextId stands for gen_random_uuid().
NullId == 0

EmptyDb ==
  [product_group |-> <<>>, product |-> <<>>, customer |-> <<>>, seller |-> <<>>,
   payment_term |-> <<>>, sale |-> <<>>, sale_item |-> <<>>,
   customer_payment |-> <<>>, stock_movement |-> <<>>, nextId |-> 1]

CoreTables == DOMAIN EmptyDb \ {"nextId"}

ReferenceTables == {"product_group", "product", "customer", "seller", "payment_term"}

\* the row holding a legacy code (unique when not null), 0 when there is none
RowIndex(tbl, code) ==
  IF code # NULL /\ \E i \in 1..Len(tbl) : tbl[i].legacy_code = code
  THEN CHOOSE i \in 1..Len(tbl) : tbl[i].legacy_code = code
  ELSE 0

\* select legacy_code, id from <table> where legacy_code is not null,
\* as a map keyed by the trimmed code; a falsy ('') code is left out
buildLegacyMap(tbl) ==
  LET keys == {Trim(tbl[i].legacy_code) :
                 i \in {k \in 1..Len(tbl) : tbl[k].legacy_code # NULL /\ tbl[k].legacy_code # ""}}
  IN [c \in keys |->
        tbl[CHOOSE i \in 1..Len(tbl) :
              /\ tbl[i].legacy_code # NULL
              /\ Trim(tbl[i].legacy_code) = c
              /\ \A k \in (i + 1)..Len(tbl) :
                   tbl[k].legacy_code = NULL \/ Trim(tbl[k].legacy_code) # c].id]

\* Map.get(code): the id, or 0 for undefined
MapGet(m, code) == IF code \in DOMAIN m THEN m[code] ELSE NullId

\* insert ... select ... on conflict (legacy_code) do update set <every
\* other column> = excluded.<column>, one statement: the rows are taken in
\* order; a null in the not-null column name, or a second row with the same
\* code ("cannot affect row a second time"), aborts the whole statement.
RECURSIVE ApplyUpsert(_, _, _)
ApplyUpsert(tbl, nid, rows) ==
  IF rows = <<>> THEN [rows |-> tbl, nextId |-> nid]
  ELSE LET r == Head(rows)
           i == RowIndex(tbl, r.legacy_code)
       IN IF i = 0
          THEN ApplyUpsert(Append(tbl, [f \in DOMAIN r \cup {"id"} |->
                                          IF f = "id" THEN nid ELSE r[f]]),
                           nid + 1, Tail(rows))
          ELSE ApplyUpsert([tbl EXCEPT ![i] = [f \in DOMAIN r \cup {"id"} |->
                                                 IF f = "id" THEN tbl[i].id ELSE r[f]]],
                           nid, Tail(rows))

UpsertFails(rows) ==
  \/ \E i \in 1..Len(rows) : rows[i].name = NULL
  \/ \E i, k \in 1..Len(rows) : i # k /\ rows[i].legacy_code = rows[k].legacy_code

UpsertByLegacyCode_m(d, table, rows) ==
  [d EXCEPT ![table] = @ \o [i \in 1..Len(rows) |->
                               [f \in DOMAIN rows[i] \cup {"id"} |->
                                  IF f = "id" THEN d.nextId + i - 1 ELSE rows[i][f]]],
            !.nextId = @ + Len(rows)]
UpsertByLegacyCode(d, table, rows) ==
  LET res == ApplyUpsert(d[table], d.nextId, rows)
  IN [d EXCEPT ![table] = res.rows, !.nextId = res.nextId]

\* where <code column> is not null
RECURSIVE WithCode(_, _)
WithCode(stgRows, col) ==
  IF stgRows = <<>> THEN <<>>
  ELSE (IF Head(stgRows)[col] # NULL THEN <<Head(stgRows)>> ELSE <<>>)
       \o WithCode(Tail(stgRows), col)

\* lower() on the status texts of the model
Lower(t) ==
  CASE t = "ATIVO" -> "ativo"
    [] OTHER -> t

\* the select lists of the five statements of migrateMasterData
GroupRows(st) ==
  LET src == WithCode(st["stg_grupo"], "cod_grup") IN
  [i \in 1..Len(src) |->
     [legacy_code |-> Trim(src[i].cod_grup),
      name |-> IF src[i].nome = NULL \/ Trim(src[i].nome) = ""
               THEN Trim(src[i].cod_grup) ELSE Trim(src[i].nome)]]

\* the product select with an inner join in place of the left join
ProductRows_m(st, d) ==
  LET src == SelectSeq(WithCode(st["stg_produto"], "cod_prod"),
                       LAMBDA s : s.cod_grup # NULL
                                  /\ RowIndex(d.product_group, Trim(s.cod_grup)) # 0) IN
  [i \in 1..Len(src) |->
     [legacy_code |-> Trim(src[i].cod_prod),
      name |-> src[i].nome_prod,
      group_id |-> d.product_group[RowIndex(d.product_group, Trim(src[i].cod_grup))].id]]
ProductRows(st, d) ==
  LET src == WithCode(st["stg_produto"], "cod_prod") IN
  [i \in 1..Len(src) |->
     [legacy_code |-> Trim(src[i].cod_prod),
      name |-> src[i].nome_prod,
      group_id |-> IF src[i].cod_grup = NULL THEN NullId
                   ELSE LET g == RowIndex(d.product_group, Trim(src[i].cod_grup))
                        IN IF g = 0 THEN NullId ELSE d.product_group[g].id]]

CustomerRows(st) ==
  LET src == WithCode(st["stg_clientes"], "codigo") IN
  [i \in 1..Len(src) |->
     [legacy_code |-> Trim(src[i].codigo),
      name |-> src[i].nome,
      status |-> IF src[i].status = NULL \/ Trim(src[i].status) = ""
                 THEN "active" ELSE Lower(Trim(src[i].status))]]

SellerRows(st) ==
  LET src == WithCode(st["stg_vendedor"], "codigo") IN
  [i \in 1..Len(src) |-> [legacy_code |-> Trim(src[i].codigo), name |-> src[i].nome]]

PaymentTermRows(st) ==
  LET src == WithCode(st["stg_forma_pg"], "cod_fpg") IN
  [i \in 1..Len(src) |-> [legacy_code |-> Trim(src[i].cod_fpg), name |-> src[i].forma]]

MASTER_STEPS == <<"product_group", "product", "customer", "seller", "payment_term">>

MasterRows(table, st, d) ==
  CASE table = "product_group" -> GroupRows(st)
    [] table = "product"       -> ProductRows(st, d)
    [] table = "customer"      -> CustomerRows(st)
    [] table = "seller"        -> SellerRows(st)
    [] table = "payment_term"  -> PaymentTermRows(st)

\* ------------------------------------------------------------ migrateSales
Falsy(t) == t = NULL \/ t = ""

\* extractSaleItems: the slots 1..7 with a truthy code, in slot order
RECURSIVE ExtractFrom(_, _)
ExtractFrom(row, index) ==
  IF index > NSlots THEN <<>>
  ELSE (IF Falsy(row.cod[index]) THEN <<>>
        ELSE << [cod |-> Trim(row.cod[index]),
                 quantity |-> OrZero(normalizeNumber(row.qtde[index])),
                 price |-> OrZero(normalizeNumber(row.vlr[index])),
                 total |-> OrZero(normalizeNumber(row.total[index]))] >>)
       \o ExtractFrom(row, index + 1)

\* a slot expansion that packs the values of the populated prefix instead
\* of reading each slot's own columns
RECURSIVE ExtractPacked(_, _, _)
ExtractPacked(row, index, n) ==
  IF index > NSlots THEN <<>>
  ELSE IF Falsy(row.cod[index]) THEN ExtractPacked(row, index + 1, n)
  ELSE << [cod |-> Trim(row.cod[index]),
           quantity |-> OrZero(normalizeNumber(row.qtde[n])),
           price |-> OrZero(normalizeNumber(row.vlr[n])),
           total |-> OrZero(normalizeNumber(row.total[n]))] >>
       \o ExtractPacked(row, index + 1, n + 1)

extractSaleItems_m(row) == ExtractPacked(row, 1, 1)
extractSaleItems(row) == ExtractFrom(row, 1)

\* const sourceKey = row.pedido ? String(row.pedido).trim() : null
SourceKey(row) == IF Falsy(row.pedido) THEN NULL ELSE Trim(row.pedido)

\* row.cod_x ? map.get(String(row.cod_x).trim()) : null, then ?? null
Resolve(m, code) == IF Falsy(code) THEN NullId ELSE MapGet(m, Trim(code))

\* the legacy-code lookup tables built at the top of migrateSales
BuildMaps_m(d) ==
  [seller |-> <<>>, customer |-> <<>>, payment_term |-> <<>>, product |-> <<>>]
BuildMaps(d) ==
  [seller |-> buildLegacyMap(d.seller),
   customer |-> buildLegacyMap(d.customer),
   payment_term |-> buildLegacyMap(d.payment_term),
   product |-> buildLegacyMap(d.product)]

NoMaps == [seller |-> <<>>, customer |-> <<>>, payment_term |-> <<>>, product |-> <<>>]

\* the two record families: staging table, source label, the status the
\* insert gives a new row, whether the conflict branch sets status too, and
\* the word that opens a mismatch string
FAMILIES == <<
  [table |-> "stg_vendas",  source |-> "VENDAS",  status |-> "completed",
   updatesStatus |-> FALSE, label |-> "Sale"],
  [table |-> "stg_pedidos", source |-> "PEDIDOS", status |-> "draft",
   updatesStatus |-> TRUE,  label |-> "Order"] >>

SaleIndex(d, source, key) ==
  IF \E i \in 1..Len(d.sale) : d.sale[i].source = source /\ d.sale[i].source_key = key
  THEN CHOOSE i \in 1..Len(d.sale) : d.sale[i].source = source /\ d.sale[i].source_key = key
  ELSE 0

\* the values of the sale header insert for a staging row
SaleValues(row, maps) ==
  [emission_date |-> normalizeDate(row.emissao),
   order_number |-> SourceKey(row),
   seller_id |-> Resolve(maps.seller, row.cod_vend),
   customer_id |-> Resolve(maps.customer, row.cod_cli),
   payment_term_id |-> Resolve(maps.payment_term, row.cod_fpg),
   total |-> normalizeNumber(row.total_gera)]

\* sale.emission_date is declared not null
SaleInsertFails(row) == normalizeDate(row.emissao) = NULL

\* insert into sale (...) values (...) on conflict (source, source_key)
\* do update set ... returning id
UpsertSale(d, fam, row, maps) ==
  LET v == SaleValues(row, maps)
      i == SaleIndex(d, fam.source, SourceKey(row))
  IN IF i = 0
     THEN [d EXCEPT !.sale = Append(@,
                [id |-> d.nextId, emission_date |-> v.emission_date,
                 order_number |-> v.order_number, seller_id |-> v.seller_id,
                 customer_id |-> v.customer_id, payment_term_id |-> v.payment_term_id,
                 total |-> v.total, status |-> fam.status,
                 source |-> fam.source, source_key |-> SourceKey(row)]),
                    !.nextId = @ + 1]
     ELSE [d EXCEPT !.sale[i] =
                [@ EXCEPT !.emission_date = v.emission_date,
                          !.order_number = v.order_number, !.seller_id = v.seller_id,
                          !.customer_id = v.customer_id,
                          !.payment_term_id = v.payment_term_id, !.total = v.total,
                          !.status = IF fam.updatesStatus THEN fam.status ELSE @]]

SaleIdOf(d, fam, row) == d.sale[SaleIndex(d, fam.source, SourceKey(row))].id

RECURSIVE Without(_, _, _)
Without(tbl, col, ids) ==
  IF tbl = <<>> THEN <<>>
  ELSE (IF Head(tbl)[col] \in ids THEN <<>> ELSE <<Head(tbl)>>) \o Without(Tail(tbl), col, ids)

\* delete from sale_item where sale_id = $1
DeleteSaleItems_m(d, saleId) == d
DeleteSaleItems(d, saleId) ==
  [d EXCEPT !.sale_item = Without(@, "sale_id", {saleId})]

\* insert into sale_item (sale_id, product_id, quantity, unit_price, total)
InsertSaleItem(d, saleId, productId, item) ==
  [d EXCEPT !.sale_item = Append(@,
              [id |-> d.nextId, sale_id |-> saleId, product_id |-> productId,
               quantity |-> item.quantity, unit_price |-> item.price,
               total |-> item.total]),
            !.nextId = @ + 1]

\* `${label} ${sourceKey}: product ${item.cod} not found`
Mismatch_m(fam, key, cod) == <<"Sale", key, "product", cod, "not found">>
Mismatch(fam, key, cod) == <<fam.label, key, "product", cod, "not found">>

\* delete from sale where source in ('VENDAS', 'PEDIDOS'); sale_item rows
\* go with their sale (on delete cascade)
DeleteImportedSales(d) ==
  LET gone == {d.sale[i].id : i \in {k \in 1..Len(d.sale) :
                                        d.sale[k].source \in {"VENDAS", "PEDIDOS"}}}
  IN [d EXCEPT !.sale = Without(@, "id", gone),
               !.sale_item = Without(@, "sale_id", gone)]

\* truncate <table> cascade, for the nine tables of truncateCoreTables in
\* its order; cascade empties the tables that reference the truncated one
TRUNCATE_ORDER == <<"sale_item", "sale", "customer_payment", "stock_movement",
                    "product", "product_group", "customer", "seller", "payment_term">>

Referencing(table) ==
  CASE table = "sale"          -> {"sale_item"}
    [] table = "product"       -> {"sale_item", "stock_movement"}
    [] table = "product_group" -> {"product", "sale_item", "stock_movement"}
    [] table = "customer"      -> {"sale", "sale_item", "customer_payment"}
    [] table = "seller"        -> {"sale", "sale_item"}
    [] table = "payment_term"  -> {"sale", "sale_item"}
    [] OTHER -> {}

TruncateCascade(d, table) ==
  [f \in DOMAIN d |-> IF f = table \/ f \in Referencing(table) THEN <<>> ELSE d[f]]

\* ----------------------------------------------------- auxiliary migrators
\* customer_payment has no not-null column besides id
PaymentRow(nid, customerId, row) ==
  [id |-> nid, customer_id |-> customerId,
   payment_date |-> normalizeDate(row.pagamento),
   paid_value |-> normalizeNumber(row.vlr_pago)]

\* select id from customer where legacy_code = $1 limit 1
CustomerIdOf(d, code) ==
  LET i == RowIndex(d.customer, code) IN IF i = 0 THEN NullId ELSE d.customer[i].id

\* stock_movement: date not null, type in ('E','S') not null, quantity not null
StockInsertFails(row) ==
  \/ normalizeDate(row.data) = NULL
  \/ normalizeString(row.tip_mov) \notin {"E", "S"}
  \/ normalizeNumber(row.qtde_mov) = <<>>

StockRow(nid, productId, row) ==
  [id |-> nid, product_id |-> productId, date |-> normalizeDate(row.data),
   type |-> normalizeString(row.tip_mov), quantity |-> normalizeNumber(row.qtde_mov)]

\* ------------------------------------------------------------ one job run
\* The pipeline of one job as a machine over
\*   c = [db, stg, job, log, report, pl]
\* db, stg: core and staging tables; job: the system_legacy_import row;
\* log: its system_legacy_import_log rows; report: the lines of the report
\* file; pl: the in-memory position and locals of runImport. Each operator
\* below is one step of runImport between two awaits.
NoSummary ==
  [staging |-> [t \in StagingTables |-> 0],
   master |-> [t \in ReferenceTables |-> 0],
   sales |-> 0, saleItems |-> 0, orders |-> 0, orderItems |-> 0,
   mismatches |-> <<>>, customerPayments |-> 0, stockMovements |-> 0]

IdlePl ==
  [at |-> "idle", i |-> 0, r |-> 0, k |-> 0, maps |-> NoMaps, items |-> <<>>,
   saleId |-> NullId, sum |-> NoSummary, error |-> NULL]

StartPl == [IdlePl EXCEPT !.at = "start"]

QueuedJob ==
  [status |-> "queued", started_at |-> FALSE, finished_at |-> FALSE,
   report_path |-> FALSE, summary |-> <<>>, error_message |-> NULL]

Log(c, level, message) == [c EXCEPT !.log = Append(@, <<level, message>>)]

\* throw new Error(message): control goes to the catch block of processQueue
Fail(c, message) == [c EXCEPT !.pl.at = "catch_log", !.pl.error = message]

\* `if (!filesMap.has(required)) throw` for one of REQUIRED_FILES
RequiredMissing_m(present) == FALSE
RequiredMissing(present) == \E f \in REQUIRED_FILES : f \notin present

\* updateImportStatus(running, started_at); appendLog('Preparing ...')
S_Start(c) ==
  Log([c EXCEPT !.job.status = "running", !.job.started_at = TRUE,
                !.pl.at = "prepare"], "info", <<"Preparing">>)

\* prepareLegacyFiles and the required-file loop
S_Prepare(c, up) ==
  IF RequiredMissing(up.present) THEN Fail(c, "required file missing")
  ELSE [c EXCEPT !.pl.at = "schema"]

\* ensureSchema (create ... if not exists: the tables exist), then the
\* branch on job.overwrite
S_Schema(c, overwrite) ==
  IF overwrite
  THEN Log([c EXCEPT !.pl.at = "truncate_core", !.pl.i = 1], "info", <<"Clearing">>)
  ELSE [c EXCEPT !.pl.at = "truncate_stg", !.pl.i = 1]

\* truncateCoreTables, one truncate per step
S_TruncateCore(c) ==
  LET i == c.pl.i
      d == TruncateCascade(c.db, TRUNCATE_ORDER[i])
  IN IF i < Len(TRUNCATE_ORDER)
     THEN [c EXCEPT !.db = d, !.pl.i = i + 1]
     ELSE [c EXCEPT !.db = d, !.pl.at = "truncate_stg", !.pl.i = 1]

\* truncateStagingTables, one truncate per step
S_TruncateStaging_m(c) ==
  IF c.pl.i < NConfigs
  THEN [c EXCEPT !.pl.i = c.pl.i + 1]
  ELSE [c EXCEPT !.pl.at = "load", !.pl.i = 1, !.pl.k = 0]
S_TruncateStaging(c) ==
  LET i == c.pl.i
      st == [c.stg EXCEPT ![STAGING_CONFIG[i].table] = <<>>]
  IN IF i < NConfigs
     THEN [c EXCEPT !.stg = st, !.pl.i = i + 1]
     ELSE [c EXCEPT !.stg = st, !.pl.at = "load", !.pl.i = 1, !.pl.k = 0]

\* after the last record of source i: stagingSummary[table] = count
AfterFile(c, count) ==
  LET i == c.pl.i
      c1 == [c EXCEPT !.pl.sum.staging[STAGING_CONFIG[i].table] = count]
  IN IF i < NConfigs
     THEN [c1 EXCEPT !.pl.i = i + 1, !.pl.k = 0]
     ELSE [c1 EXCEPT !.pl.at = "master", !.pl.i = 1, !.pl.k = 0]

\* appendLog('Loading ...'); loadDbfIntoStaging up to DBFFile.open and the
\* first readRecords: absent file -> warn and 0; else ensureStagingTable
\* (truncate), open and read, which throw on a corrupt file
S_LoadOpen_m(c, up) ==
  LET cfg == STAGING_CONFIG[c.pl.i]
      c1 == Log(c, "info", <<"Loading", cfg.file>>)
  IN IF cfg.file \notin up.present
     THEN Fail(c1, "file not provided")
     ELSE LET c2 == [c1 EXCEPT !.stg[cfg.table] = <<>>]
          IN IF cfg.file \in up.corrupt THEN Fail(c2, "decode error")
             ELSE IF up.rows[cfg.file] = <<>> THEN AfterFile(c2, 0)
             ELSE [c2 EXCEPT !.pl.k = 1]
S_LoadOpen(c, up) ==
  LET cfg == STAGING_CONFIG[c.pl.i]
      c1 == Log(c, "info", <<"Loading", cfg.file>>)
  IN IF cfg.file \notin up.present
     THEN AfterFile(Log(c1, "warn", <<"Optional file not provided", cfg.file>>), 0)
     ELSE LET c2 == [c1 EXCEPT !.stg[cfg.table] = <<>>]
          IN IF cfg.file \in up.corrupt THEN Fail(c2, "decode error")
             ELSE IF up.rows[cfg.file] = <<>> THEN AfterFile(c2, 0)
             ELSE [c2 EXCEPT !.pl.k = 1]

\* the insert of record k of source i into its staging table
S_LoadRecord(c, up) ==
  LET cfg == STAGING_CONFIG[c.pl.i]
      k == c.pl.k
      c1 == [c EXCEPT !.stg[cfg.table] = Append(@, StageRecord(up.rows[cfg.file][k]))]
  IN IF k < Len(up.rows[cfg.file])
     THEN [c1 EXCEPT !.pl.k = k + 1]
     ELSE AfterFile(c1, k)

\* one insert ... on conflict statement of migrateMasterData and the
\* count(*) of its staging table
MasterStagingTable(table) ==
  CASE table = "product_group" -> "stg_grupo"
    [] table = "product"       -> "stg_produto"
    [] table = "customer"      -> "stg_clientes"
    [] table = "seller"        -> "stg_vendedor"
    [] table = "payment_term"  -> "stg_forma_pg"

S_Master(c) ==
  LET i == c.pl.i
      table == MASTER_STEPS[i]
      rows == MasterRows(table, c.stg, c.db)
      c0 == IF i = 1 THEN Log(c, "info", <<"Migrating master data">>) ELSE c
  IN IF UpsertFails(rows) THEN Fail(c0, "constraint violation")
     ELSE LET c1 == [c0 EXCEPT !.db = UpsertByLegacyCode(c.db, table, rows),
                               !.pl.sum.master[table] = Len(c.stg[MasterStagingTable(table)])]
          IN IF i < Len(MASTER_STEPS)
             THEN [c1 EXCEPT !.pl.i = i + 1]
             ELSE [c1 EXCEPT !.pl.at = "sales_begin"]

\* the next staging row of the sales loops with a truthy order key, from
\* row r of family f on (`if (!sourceKey) continue`; the second loop
\* follows the first; after it migrateSales returns)
RECURSIVE SeekSale(_, _, _)
SeekSale(c, f, r) ==
  IF f > Len(FAMILIES) THEN [c EXCEPT !.pl.at = "payments_begin"]
  ELSE IF r > Len(c.stg[FAMILIES[f].table]) THEN SeekSale(c, f + 1, 1)
  ELSE IF SourceKey(c.stg[FAMILIES[f].table][r]) = NULL THEN SeekSale(c, f, r + 1)
  ELSE [c EXCEPT !.pl.at = "sale_header", !.pl.i = f, !.pl.r = r]

CurrentSaleRow(c) == c.stg[FAMILIES[c.pl.i].table][c.pl.r]

\* appendLog('Migrating sales ...'); the delete under overwrite; the four
\* buildLegacyMap calls; select * from stg_vendas
S_SalesBegin(c, overwrite) ==
  LET c1 == Log(c, "info", <<"Migrating sales">>)
      d == IF overwrite THEN DeleteImportedSales(c.db) ELSE c.db
  IN SeekSale([c1 EXCEPT !.db = d, !.pl.maps = BuildMaps(d)], 1, 1)

\* the header upsert of the current row
S_SaleHeader(c) ==
  LET fam == FAMILIES[c.pl.i]
      row == CurrentSaleRow(c)
  IN IF SaleInsertFails(row) THEN Fail(c, "constraint violation")
     ELSE LET d == UpsertSale(c.db, fam, row, c.pl.maps)
          IN [c EXCEPT !.db = d, !.pl.saleId = SaleIdOf(d, fam, row),
                       !.pl.at = "sale_delete"]

\* summary.sales += 1 / summary.orders += 1, and on to the next row
FinishSale(c) ==
  LET c1 == IF FAMILIES[c.pl.i].source = "VENDAS"
            THEN [c EXCEPT !.pl.sum.sales = @ + 1]
            ELSE [c EXCEPT !.pl.sum.orders = @ + 1]
  IN SeekSale([c1 EXCEPT !.pl.items = <<>>, !.pl.saleId = NullId, !.pl.k = 0],
              c.pl.i, c.pl.r + 1)

\* delete from sale_item where sale_id = $1; extractSaleItems(row)
S_SaleDelete(c) ==
  LET items == extractSaleItems(CurrentSaleRow(c))
      c1 == [c EXCEPT !.db = DeleteSaleItems(c.db, c.pl.saleId), !.pl.items = items]
  IN IF items = <<>> THEN FinishSale(c1)
     ELSE [c1 EXCEPT !.pl.at = "sale_item", !.pl.k = 1]

\* one turn of `for (const item of items)`: mismatch and continue, or
\* insert and count
S_SaleItem_m(c) ==
  LET fam == FAMILIES[c.pl.i]
      item == c.pl.items[c.pl.k]
      productId == MapGet(c.pl.maps.product, item.cod)
      c0 == IF fam.source = "VENDAS"
            THEN [c EXCEPT !.pl.sum.saleItems = @ + 1]
            ELSE [c EXCEPT !.pl.sum.orderItems = @ + 1]
      c1 == IF productId = NullId
            THEN [c0 EXCEPT !.pl.sum.mismatches =
                     Append(@, Mismatch(fam, SourceKey(CurrentSaleRow(c)), item.cod))]
            ELSE [c0 EXCEPT !.db = InsertSaleItem(c.db, c.pl.saleId, productId, item)]
  IN IF c.pl.k < Len(c.pl.items)
     THEN [c1 EXCEPT !.pl.k = c.pl.k + 1]
     ELSE FinishSale(c1)
S_SaleItem(c) ==
  LET fam == FAMILIES[c.pl.i]
      item == c.pl.items[c.pl.k]
      productId == MapGet(c.pl.maps.product, item.cod)
      c1 == IF productId = NullId
            THEN [c EXCEPT !.pl.sum.mismatches =
                     Append(@, Mismatch(fam, SourceKey(CurrentSaleRow(c)), item.cod))]
            ELSE LET c2 == [c EXCEPT !.db = InsertSaleItem(c.db, c.pl.saleId, productId, item)]
                 IN IF fam.source = "VENDAS"
                    THEN [c2 EXCEPT !.pl.sum.saleItems = @ + 1]
                    ELSE [c2 EXCEPT !.pl.sum.orderItems = @ + 1]
  IN IF c.pl.k < Len(c.pl.items)
     THEN [c1 EXCEPT !.pl.k = c.pl.k + 1]
     ELSE FinishSale(c1)

\* appendLog('Migrating customer payments'); select * from stg_pagament
S_PaymentsBegin(c) ==
  LET c1 == Log(c, "info", <<"Migrating customer payments">>)
  IN IF c.stg["stg_pagament"] = <<>>
     THEN [c1 EXCEPT !.pl.at = "stock_begin"]
     ELSE [c1 EXCEPT !.pl.at = "payment", !.pl.r = 1]

\* one row of migrateCustomerPayments
S_Payment_m(c) ==
  LET row == c.stg["stg_pagament"][c.pl.r]
      customerId == IF Falsy(row.cod_cli) THEN NullId
                    ELSE CustomerIdOf(c.db, Trim(row.cod_cli))
      c1 == IF customerId = NullId THEN c
            ELSE [c EXCEPT !.db.customer_payment =
                              Append(@, PaymentRow(c.db.nextId, customerId, row)),
                           !.db.nextId = @ + 1,
                           !.pl.sum.customerPayments = @ + 1]
  IN IF customerId # NullId /\ c.pl.r < Len(c.stg["stg_pagament"])
     THEN [c1 EXCEPT !.pl.r = c.pl.r + 1]
     ELSE [c1 EXCEPT !.pl.at = "stock_begin"]
S_Payment(c) ==
  LET row == c.stg["stg_pagament"][c.pl.r]
      customerId == IF Falsy(row.cod_cli) THEN NullId
                    ELSE CustomerIdOf(c.db, Trim(row.cod_cli))
      c1 == IF customerId = NullId THEN c
            ELSE [c EXCEPT !.db.customer_payment =
                              Append(@, PaymentRow(c.db.nextId, customerId, row)),
                           !.db.nextId = @ + 1,
                           !.pl.sum.customerPayments = @ + 1]
  IN IF c.pl.r < Len(c.stg["stg_pagament"])
     THEN [c1 EXCEPT !.pl.r = c.pl.r + 1]
     ELSE [c1 EXCEPT !.pl.at = "stock_begin"]

\* appendLog('Migrating stock movements'); select * from stg_mov_est;
\* buildLegacyMap('product')
S_StockBegin(c) ==
  LET c1 == Log([c EXCEPT !.pl.maps.product = buildLegacyMap(c.db.product)],
                "info", <<"Migrating stock movements">>)
  IN IF c.stg["stg_mov_est"] = <<>>
     THEN [c1 EXCEPT !.pl.at = "report"]
     ELSE [c1 EXCEPT !.pl.at = "stock", !.pl.r = 1]

\* one row of migrateStockMovements
S_Stock(c) ==
  LET row == c.stg["stg_mov_est"][c.pl.r]
      productId == IF Falsy(row.cod_prod) THEN NullId
                   ELSE MapGet(c.pl.maps.product, Trim(row.cod_prod))
  IN IF productId # NullId /\ StockInsertFails(row) THEN Fail(c, "constraint violation")
     ELSE LET c1 == IF productId = NullId THEN c
                    ELSE [c EXCEPT !.db.stock_movement =
                                      Append(@, StockRow(c.db.nextId, productId, row)),
                                   !.db.nextId = @ + 1,
                                   !.pl.sum.stockMovements = @ + 1]
          IN IF c.pl.r < Len(c.stg["stg_mov_est"])
             THEN [c1 EXCEPT !.pl.r = c.pl.r + 1]
             ELSE [c1 EXCEPT !.pl.at = "report"]

\* select count(*) from sale where source = $1
CountSales(d, source) ==
  Cardinality({i \in 1..Len(d.sale) : d.sale[i].source = source})

\* select count(*) from sale_item si join sale s on s.id = si.sale_id where s.source = $1
CountSaleItems(d, source) ==
  Cardinality({i \in 1..Len(d.sale_item) :
                 \E k \in 1..Len(d.sale) : /\ d.sale[k].id = d.sale_item[i].sale_id
                                           /\ d.sale[k].source = source})

\* createReconciliationReport: metric, legacy_value, imported_value (<<>>
\* for an empty cell), then one line per mismatch
createReconciliationReport(d, sum) ==
  << <<"product_groups", <<sum.master["product_group"]>>, <<>> >>,
     <<"products", <<sum.master["product"]>>, <<Len(d.product)>> >>,
     <<"customers", <<sum.master["customer"]>>, <<Len(d.customer)>> >>,
     <<"sales", <<sum.sales>>, <<CountSales(d, "VENDAS")>> >>,
     <<"sale_items", <<sum.saleItems>>, <<CountSaleItems(d, "VENDAS")>> >>,
     <<"orders", <<sum.orders>>, <<CountSales(d, "PEDIDOS")>> >>,
     <<"order_items", <<sum.orderItems>>, <<CountSaleItems(d, "PEDIDOS")>> >>,
     <<"customer_payments", <<sum.customerPayments>>, <<Len(d.customer_payment)>> >>,
     <<"stock_movements", <<sum.stockMovements>>, <<Len(d.stock_movement)>> >> >>
  \o [i \in 1..Len(sum.mismatches) |-> <<"mismatch", <<>>, sum.mismatches[i]>>]

\* appendLog('Generating reconciliation report'); createReconciliationReport
S_Report(c) ==
  Log([c EXCEPT !.report = createReconciliationReport(c.db, c.pl.sum),
                !.pl.at = "set_completed"], "info", <<"Generating reconciliation report">>)

\* updateImportStatus('completed', finished_at, summary, report_path, error_message: null)
S_SetCompleted_m(c) ==
  [c EXCEPT !.job.status = "completed", !.job.finished_at = TRUE, !.pl.at = "log_completed"]
S_SetCompleted(c) ==
  [c EXCEPT !.job = [@ EXCEPT !.status = "completed", !.finished_at = TRUE,
                              !.summary = <<c.pl.sum>>, !.report_path = TRUE,
                              !.error_message = NULL],
            !.pl.at = "log_completed"]

\* appendLog('Legacy data import completed successfully'); runImport returns
S_LogCompleted(c) ==
  Log([c EXCEPT !.pl = [IdlePl EXCEPT !.at = "done"]], "info", <<"completed">>)

\* catch: appendLog(job.id, 'error', message)
S_CatchLog(c) ==
  Log([c EXCEPT !.pl.at = "catch_update"], "error", <<c.pl.error>>)

\* catch: updateImportStatus('failed', finished_at, error_message)
S_CatchUpdate(c) ==
  [c EXCEPT !.job = [@ EXCEPT !.status = "failed", !.finished_at = TRUE,
                              !.error_message = c.pl.error],
            !.pl = [IdlePl EXCEPT !.at = "done"]]

\* the step runImport / the catch block takes from position c.pl.at
StepOf(c, up, overwrite) ==
  CASE c.pl.at = "start"          -> S_Start(c)
    [] c.pl.at = "prepare"        -> S_Prepare(c, up)
    [] c.pl.at = "schema"         -> S_Schema(c, overwrite)
    [] c.pl.at = "truncate_core"  -> S_TruncateCore(c)
    [] c.pl.at = "truncate_stg"   -> S_TruncateStaging(c)
    [] c.pl.at = "load"           -> IF c.pl.k = 0 THEN S_LoadOpen(c, up) ELSE S_LoadRecord(c, up)
    [] c.pl.at = "master"         -> S_Master(c)
    [] c.pl.at = "sales_begin"    -> S_SalesBegin(c, overwrite)
    [] c.pl.at = "sale_header"    -> S_SaleHeader(c)
    [] c.pl.at = "sale_delete"    -> S_SaleDelete(c)
    [] c.pl.at = "sale_item"      -> S_SaleItem(c)
    [] c.pl.at = "payments_begin" -> S_PaymentsBegin(c)
    [] c.pl.at = "payment"        -> S_Payment(c)
    [] c.pl.at = "stock_begin"    -> S_StockBegin(c)
    [] c.pl.at = "stock"          -> S_Stock(c)
    [] c.pl.at = "report"         -> S_Report(c)
    [] c.pl.at = "set_completed"  -> S_SetCompleted(c)
    [] c.pl.at = "log_completed"  -> S_LogCompleted(c)
    [] c.pl.at = "catch_log"      -> S_CatchLog(c)
    [] c.pl.at = "catch_update"   -> S_CatchUpdate(c)

\* one job from its first step to its end without interruption
RECURSIVE RunToEnd(_, _, _)
RunToEnd(c, up, overwrite) ==
  IF c.pl.at = "done" THEN c ELSE RunToEnd(StepOf(c, up, overwrite), up, overwrite)

\* ------------------------------------------------------- uploads and data
D1 == "2020-01-02T00:00:00.000Z"

D2 == "2020-01-03T00:00:00.000Z"

NoCodes == [i \in Slots |-> ""]

NoNumbers == [i \in Slots |-> <<>>]

\* a decoded VENDAS / PEDIDOS record
SaleRecord(pedido, emissao, vend, cli, fpg, total_gera, cod, qtde, vlr, total) ==
  [pedido |-> pedido, emissao |-> emissao, cod_vend |-> vend, cod_cli |-> cli,
   cod_fpg |-> fpg, total_gera |-> total_gera, cod |-> cod, qtde |-> qtde,
   vlr |-> vlr, total |-> total]

\* the decoded records of a complete legacy export
BaseRows ==
  [f \in AllFiles |->
     CASE f = "GRUPO.DBF" ->
            << [cod_grup |-> "G1", nome |-> "Bebidas"], [cod_grup |-> "G2", nome |-> " "] >>
       [] f = "PRODUTO.DBF" ->
            << [cod_prod |-> "P1", nome_prod |-> "Cola", cod_grup |-> "G1 "],
               [cod_prod |-> " P2", nome_prod |-> "Pao", cod_grup |-> "G9"] >>
       [] f = "CLIENTES.DBF" ->
            << [codigo |-> "C1", nome |-> "Ana", status |-> ""],
               [codigo |-> "", nome |-> "Balcao", status |-> "ATIVO"] >>
       [] f = "VENDEDOR.DBF" -> << [codigo |-> "V1", nome |-> "Rui"] >>
       [] f = "FORMA_PG.DBF" -> << [cod_fpg |-> "F1", forma |-> "Dinheiro"] >>
       [] f = "VENDAS.DBF" ->
            << SaleRecord("100", D1, "V1", "C1", "F1", <<55>>,
                          [NoCodes EXCEPT ![1] = "P1", ![3] = " P2"],
                          [NoNumbers EXCEPT ![1] = <<20>>, ![3] = <<15>>],
                          [NoNumbers EXCEPT ![1] = <<10>>, ![3] = <<25>>],
                          [NoNumbers EXCEPT ![1] = <<20>>, ![3] = <<35>>]),
               SaleRecord("101", D2, "", "C9", NULL, <<>>,
                          [NoCodes EXCEPT ![1] = "PX", ![2] = "P1"],
                          [NoNumbers EXCEPT ![1] = <<10>>, ![2] = <<30>>],
                          [NoNumbers EXCEPT ![1] = <<10>>],
                          [NoNumbers EXCEPT ![1] = <<10>>, ![2] = <<30>>]),
               SaleRecord("", D1, "V1", "C1", "F1", <<10>>, NoCodes, NoNumbers,
                          NoNumbers, NoNumbers) >>
       [] f = "PEDIDOS.DBF" ->
            << SaleRecord("100", D2, "V1", "C1", "", <<25>>,
                          [NoCodes EXCEPT ![2] = "P2"],
                          [NoNumbers EXCEPT ![2] = <<10>>],
                          [NoNumbers EXCEPT ![2] = <<25>>],
                          [NoNumbers EXCEPT ![2] = <<25>>]) >>
       [] f = "PAGAMENT.DBF" ->
            << [cod_cli |-> "C1", vlr_pago |-> <<100>>, pagamento |-> D1],
               [cod_cli |-> "C9", vlr_pago |-> <<50>>, pagamento |-> D2] >>
       [] f = "MOV_EST.DBF" ->
            << [tip_mov |-> "E", data |-> D1, cod_prod |-> "P1", qtde_mov |-> <<50>>],
               [tip_mov |-> "S", data |-> D2, cod_prod |-> "PX", qtde_mov |-> <<10>>] >>]

\* the same export with the product code P1 on two records
DuplicateRows ==
  [BaseRows EXCEPT !["PRODUTO.DBF"] =
     Append(@, [cod_prod |-> "P1", nome_prod |-> "Cola 2", cod_grup |-> "G2"])]

CompleteUpload == [present |-> AllFiles, corrupt |-> {}, rows |-> BaseRows]

\* the uploads of the model: the complete export, the export lacking one
\* file, the export with one unreadable file, the export with a duplicate key
Uploads ==
  {CompleteUpload}
  \cup {[CompleteUpload EXCEPT !.present = AllFiles \ {f}] : f \in AllFiles}
  \cup {[CompleteUpload EXCEPT !.corrupt = {f}] : f \in AllFiles}
  \cup {[CompleteUpload EXCEPT !.rows = DuplicateRows]}

\* core data of an installation in use: a group and a product imported
\* earlier, a product and a sale entered by hand, an imported sale that
\* was cancelled since, a customer with a payment
SeededDb ==
  [product_group |-> << [id |-> 1, legacy_code |-> "G1", name |-> "Antigo"] >>,
   product |-> << [id |-> 2, legacy_code |-> NULL, name |-> "Manual", group_id |-> 1],
                  [id |-> 3, legacy_code |-> "P1", name |-> "Cola velha", group_id |-> NullId] >>,
   customer |-> << [id |-> 4, legacy_code |-> "C1", name |-> "Ana", status |-> "active"] >>,
   seller |-> <<>>,
   payment_term |-> <<>>,
   sale |-> << [id |-> 5, emission_date |-> D1, order_number |-> NULL, seller_id |-> NullId,
                customer_id |-> 4, payment_term_id |-> NullId, total |-> <<20>>,
                status |-> "completed", source |-> NULL, source_key |-> NULL],
               [id |-> 7, emission_date |-> D1, order_number |-> "100", seller_id |-> NullId,
                customer_id |-> 4, payment_term_id |-> NullId, total |-> <<20>>,
                status |-> "cancelled", source |-> "VENDAS", source_key |-> "100"] >>,
   sale_item |-> << [id |-> 6, sale_id |-> 5, product_id |-> 3, quantity |-> 10,
                     unit_price |-> 20, total |-> 20],
                    [id |-> 8, sale_id |-> 7, product_id |-> 2, quantity |-> 10,
                     unit_price |-> 20, total |-> 20] >>,
   customer_payment |-> << [id |-> 9, customer_id |-> 4, payment_date |-> D1,
                            paid_value |-> <<50>>] >>,
   stock_movement |-> <<>>,
   nextId |-> 10]

\* staging left behind by that earlier import
SeededStaging ==
  [EmptyStaging EXCEPT
     !["stg_grupo"] = << [cod_grup |-> "G7", nome |-> "Velho"] >>,
     !["stg_pagament"] = << [cod_cli |-> "C1", vlr_pago |-> <<"7">>, pagamento |-> D1] >>]

Installations == {[db |-> EmptyDb, stg |-> EmptyStaging], [db |-> SeededDb, stg |-> SeededStaging]}

\* --------------------------------------------------- the pipeline actions
Cur == [db |-> db, stg |-> stg, job |-> djob, log |-> dlog, report |-> report, pl |-> pl]

Apply(c) ==
  /\ db' = c.db
  /\ stg' = c.stg
  /\ djob' = c.job
  /\ dlog' = c.log
  /\ report' = c.report
  /\ pl' = c.pl

Rest == <<upload, ov, run, dcrashes, atStart, prev, orchVars>>

\* POST /import/legacy for the upload, once the job before it has ended
SubmitJob ==
  /\ pl.at \in {"idle", "done"}
  /\ run < MaxRuns
  /\ run' = run + 1
  /\ ov' \in BOOLEAN
  /\ djob' = QueuedJob
  /\ dlog' = <<>>
  /\ report' = <<>>
  /\ pl' = StartPl
  /\ atStart' = [db |-> db, stg |-> stg]
  /\ prev' = IF run = 0 THEN prev ELSE [db |-> db, status |-> djob.status]
  /\ UNCHANGED <<db, stg, upload, dcrashes, orchVars>>

JobStart ==
  /\ pl.at = "start" /\ Apply(S_Start(Cur)) /\ UNCHANGED Rest

JobPrepare ==
  /\ pl.at = "prepare" /\ Apply(S_Prepare(Cur, upload)) /\ UNCHANGED Rest

JobSchema ==
  /\ pl.at = "schema" /\ Apply(S_Schema(Cur, ov)) /\ UNCHANGED Rest

JobTruncateCore ==
  /\ pl.at = "truncate_core" /\ Apply(S_TruncateCore(Cur)) /\ UNCHANGED Rest

JobTruncateStaging ==
  /\ pl.at = "truncate_stg" /\ Apply(S_TruncateStaging(Cur)) /\ UNCHANGED Rest

JobLoadOpen ==
  /\ pl.at = "load" /\ pl.k = 0 /\ Apply(S_LoadOpen(Cur, upload)) /\ UNCHANGED Rest

JobLoadRecord ==
  /\ pl.at = "load" /\ pl.k > 0 /\ Apply(S_LoadRecord(Cur, upload)) /\ UNCHANGED Rest

JobMaster ==
  /\ pl.at = "master" /\ Apply(S_Master(Cur)) /\ UNCHANGED Rest

JobSalesBegin ==
  /\ pl.at = "sales_begin" /\ Apply(S_SalesBegin(Cur, ov)) /\ UNCHANGED Rest

JobSaleHeader ==
  /\ pl.at = "sale_header" /\ Apply(S_SaleHeader(Cur)) /\ UNCHANGED Rest

JobSaleDelete ==
  /\ pl.at = "sale_delete" /\ Apply(S_SaleDelete(Cur)) /\ UNCHANGED Rest

JobSaleItem ==
  /\ pl.at = "sale_item" /\ Apply(S_SaleItem(Cur)) /\ UNCHANGED Rest

JobPaymentsBegin ==
  /\ pl.at = "payments_begin" /\ Apply(S_PaymentsBegin(Cur)) /\ UNCHANGED Rest

JobPayment ==
  /\ pl.at = "payment" /\ Apply(S_Payment(Cur)) /\ UNCHANGED Rest

JobStockBegin ==
  /\ pl.at = "stock_begin" /\ Apply(S_StockBegin(Cur)) /\ UNCHANGED Rest

JobStock ==
  /\ pl.at = "stock" /\ Apply(S_Stock(Cur)) /\ UNCHANGED Rest

JobReport ==
  /\ pl.at = "report" /\ Apply(S_Report(Cur)) /\ UNCHANGED Rest

JobSetCompleted ==
  /\ pl.at = "set_completed" /\ Apply(S_SetCompleted(Cur)) /\ UNCHANGED Rest

JobLogCompleted ==
  /\ pl.at = "log_completed" /\ Apply(S_LogCompleted(Cur)) /\ UNCHANGED Rest

JobCatchLog ==
  /\ pl.at = "catch_log" /\ Apply(S_CatchLog(Cur)) /\ UNCHANGED Rest

JobCatchUpdate ==
  /\ pl.at = "catch_update" /\ Apply(S_CatchUpdate(Cur)) /\ UNCHANGED Rest

\* The process dies during the job and is started again:
\* initializeLegacyImportWorker sets a running job back to queued, puts the
\* queued job on the queue and processQueue runs it from its first step.
JobCrash_m ==
  /\ pl.at \notin {"idle", "done"}
  /\ dcrashes < MaxDCrashes
  /\ dcrashes' = dcrashes + 1
  /\ IF djob.status \in {"queued", "running"}
     THEN /\ djob' = [djob EXCEPT !.status = "queued", !.started_at = FALSE]
          /\ pl' = StartPl
     ELSE /\ djob' = djob
          /\ pl' = [IdlePl EXCEPT !.at = "done"]
  /\ dlog' = <<>>
  /\ UNCHANGED <<db, stg, report, upload, ov, run, atStart, prev, orchVars>>
JobCrash ==
  /\ pl.at \notin {"idle", "done"}
  /\ dcrashes < MaxDCrashes
  /\ dcrashes' = dcrashes + 1
  /\ IF djob.status \in {"queued", "running"}
     THEN /\ djob' = [djob EXCEPT !.status = "queued", !.started_at = FALSE]
          /\ pl' = StartPl
     ELSE /\ djob' = djob
          /\ pl' = [IdlePl EXCEPT !.at = "done"]
  /\ UNCHANGED <<db, stg, dlog, report, upload, ov, run, atStart, prev, orchVars>>

JobStep ==
  \/ JobStart
  \/ JobPrepare
  \/ JobSchema
  \/ JobTruncateCore
  \/ JobTruncateStaging
  \/ JobLoadOpen
  \/ JobLoadRecord
  \/ JobMaster
  \/ JobSalesBegin
  \/ JobSaleHeader
  \/ JobSaleDelete
  \/ JobSaleItem
  \/ JobPaymentsBegin
  \/ JobPayment
  \/ JobStockBegin
  \/ JobStock
  \/ JobReport
  \/ JobSetCompleted
  \/ JobLogCompleted
  \/ JobCatchLog
  \/ JobCatchUpdate

\* ---------------------------------------------------------- specifications
NoPrev == [db |-> EmptyDb, status |-> "none"]

DataIdle ==
  /\ db = EmptyDb
  /\ stg = EmptyStaging
  /\ djob = QueuedJob
  /\ dlog = <<>>
  /\ report = <<>>
  /\ pl = IdlePl
  /\ upload = CompleteUpload
  /\ ov = FALSE
  /\ run = 0
  /\ dcrashes = 0
  /\ atStart = [db |-> EmptyDb, stg |-> EmptyStaging]
  /\ prev = NoPrev

Init == OrchInit /\ DataIdle

Spec == Init /\ [][Next]_vars

\* Spec when every awaited operation eventually returns or throws: each
\* processQueue invocation, initializeLegacyImportWorker and each route
\* handler that can take a step eventually takes one
FairSpec ==
  /\ Spec
  /\ \A d \in DrainerIds :
       WF_vars(\/ SetRunning(d) \/ LogPrepare(d) \/ RunStages(d) \/ RunStagesFail(d)
               \/ SetCompleted(d) \/ LogCompleted(d) \/ WriteFail(d)
               \/ CatchLog(d) \/ CatchUpdate(d) \/ CatchFail(d))
  /\ WF_vars(InitSchema \/ InitReset \/ InitSelect \/ InitPush \/ InitFail)
  /\ \A j \in JobIds : WF_vars(queueLegacyImport(j))

\* an installation, fresh or in use, and an upload
DataInit ==
  /\ OrchInit
  /\ \E inst \in Installations :
       /\ db = inst.db
       /\ stg = inst.stg
       /\ atStart = inst
  /\ upload \in Uploads
  /\ djob = QueuedJob
  /\ dlog = <<>>
  /\ report = <<>>
  /\ pl = IdlePl
  /\ ov = FALSE
  /\ run = 0
  /\ dcrashes = 0
  /\ prev = NoPrev

DataNext == SubmitJob \/ JobStep

SpecData == DataInit /\ [][DataNext]_vars

CrashNext == (run = 0 /\ SubmitJob) \/ JobStep \/ JobCrash

SpecCrash == DataInit /\ [][CrashNext]_vars

\* ---------------------------------------------------------------- SpecSlots
\* One decoded VENDAS record for every population of its seven slots with
\* no code, a known product code or an unknown one; slot i carries its own
\* quantity, price and total (or no quantity at all in the second pattern).
SlotCodes == {"", "P1", "PX"}

SlotPatterns == {1, 2}

SlotRecord(cod, pat) ==
  SaleRecord("100", D1, "V1", "C1", "F1", <<55>>, cod,
             [i \in Slots |-> IF pat = 2 /\ i % 2 = 0 THEN <<>> ELSE <<10 * i + pat>>],
             [i \in Slots |-> <<5 * i>>],
             [i \in Slots |-> <<100 + i>>])

SlotsDb ==
  [EmptyDb EXCEPT
     !.product = << [id |-> 1, legacy_code |-> "P1", name |-> "Cola", group_id |-> NullId],
                    [id |-> 2, legacy_code |-> "P2", name |-> "Pao", group_id |-> NullId] >>,
     !.nextId = 3]

\* the same with the sale of the record imported before, with two items
SlotsDbImported ==
  [SlotsDb EXCEPT
     !.sale = << [id |-> 3, emission_date |-> D2, order_number |-> "100", seller_id |-> NullId,
                  customer_id |-> NullId, payment_term_id |-> NullId, total |-> <<10>>,
                  status |-> "completed", source |-> "VENDAS", source_key |-> "100"] >>,
     !.sale_item = << [id |-> 4, sale_id |-> 3, product_id |-> 1, quantity |-> 70,
                       unit_price |-> 70, total |-> 70],
                      [id |-> 5, sale_id |-> 3, product_id |-> 2, quantity |-> 80,
                       unit_price |-> 80, total |-> 80] >>,
     !.nextId = 6]

SlotsInit ==
  /\ OrchInit
  /\ db \in {SlotsDb, SlotsDbImported}
  /\ \E cod \in [Slots -> SlotCodes], pat \in SlotPatterns :
       /\ upload = [present |-> AllFiles, corrupt |-> {},
                    rows |-> [f \in AllFiles |->
                                IF f = "VENDAS.DBF" THEN <<SlotRecord(cod, pat)>> ELSE <<>>]]
       /\ stg = [EmptyStaging EXCEPT !["stg_vendas"] = <<StageRecord(SlotRecord(cod, pat))>>]
  /\ atStart = [db |-> db, stg |-> stg]
  /\ djob = [QueuedJob EXCEPT !.status = "running", !.started_at = TRUE]
  /\ dlog = <<>>
  /\ report = <<>>
  /\ pl = [StartPl EXCEPT !.at = "sales_begin"]
  /\ ov = FALSE
  /\ run = 1
  /\ dcrashes = 0
  /\ prev = NoPrev

SlotsNext == JobSalesBegin \/ JobSaleHeader \/ JobSaleDelete \/ JobSaleItem

SpecSlots == SlotsInit /\ [][SlotsNext]_vars

\* ------------------------------------------------------------- SpecFamilies
\* migrateSales over one VENDAS record and one PEDIDOS record with the same
\* order key, for every population of three of their slots, with and
\* without the overwrite flag, on a database without or with an earlier
\* import of that sale.
FamSlots == {1, 4, 7}

FamRecord(cod) ==
  SaleRecord("100", D1, "V1", "C1", "F1", <<55>>,
             [i \in Slots |-> IF i \in FamSlots THEN cod[i] ELSE ""],
             [i \in Slots |-> <<10 * i>>],
             [i \in Slots |-> <<5 * i>>],
             [i \in Slots |-> <<100 + i>>])

FamiliesRows(cv, cp) ==
  [f \in AllFiles |->
     CASE f = "VENDAS.DBF"  -> <<FamRecord(cv)>>
       [] f = "PEDIDOS.DBF" -> <<FamRecord(cp)>>
       [] OTHER -> <<>>]

FamiliesInit ==
  /\ OrchInit
  /\ db \in {SlotsDb, SlotsDbImported}
  /\ \E cv \in [FamSlots -> SlotCodes], cp \in [FamSlots -> SlotCodes] :
       /\ upload = [present |-> AllFiles, corrupt |-> {}, rows |-> FamiliesRows(cv, cp)]
       /\ stg = [EmptyStaging EXCEPT !["stg_vendas"] = <<StageRecord(FamRecord(cv))>>,
                                     !["stg_pedidos"] = <<StageRecord(FamRecord(cp))>>]
  /\ atStart = [db |-> db, stg |-> stg]
  /\ djob = [QueuedJob EXCEPT !.status = "running", !.started_at = TRUE]
  /\ dlog = <<>>
  /\ report = <<>>
  /\ pl = [StartPl EXCEPT !.at = "sales_begin"]
  /\ ov \in BOOLEAN
  /\ run = 1
  /\ dcrashes = 0
  /\ prev = NoPrev

FamiliesNext == JobSalesBegin \/ JobSaleHeader \/ JobSaleDelete \/ JobSaleItem

SpecFamilies == FamiliesInit /\ [][FamiliesNext]_vars

\* ------------------------------------------------------------- SpecScenario
\* One whole job on a fresh installation for the export of the concrete
\* scenario: three product groups, ten products of which the two in
\* `orphans` carry a group code no group has, one customer, one seller, one
\* payment term, one sales record with slots 1 and 3 populated, and the
\* three other optional files without records.
ScenarioRows(orphans) ==
  LET codes == <<"P1", "P2", "P3", "P4", "P5", "P6", "P7", "P8", "P9", "P10">>
      groups == <<"G1", "G2", "G3">>
  IN [f \in AllFiles |->
        CASE f = "GRUPO.DBF" ->
               [i \in 1..3 |-> [cod_grup |-> groups[i], nome |-> "Grupo"]]
          [] f = "PRODUTO.DBF" ->
               [i \in 1..10 |->
                  [cod_prod |-> codes[i], nome_prod |-> "Produto",
                   cod_grup |-> IF i \in orphans THEN "G9" ELSE groups[(i % 3) + 1]]]
          [] f = "CLIENTES.DBF" -> << [codigo |-> "C1", nome |-> "Ana", status |-> ""] >>
          [] f = "VENDEDOR.DBF" -> << [codigo |-> "V1", nome |-> "Rui"] >>
          [] f = "FORMA_PG.DBF" -> << [cod_fpg |-> "F1", forma |-> "Dinheiro"] >>
          [] f = "VENDAS.DBF" ->
               << SaleRecord("500", D1, "V1", "C1", "F1", <<55>>,
                             [NoCodes EXCEPT ![1] = "P1", ![3] = "P7"],
                             [NoNumbers EXCEPT ![1] = <<20>>, ![3] = <<15>>],
                             [NoNumbers EXCEPT ![1] = <<10>>, ![3] = <<25>>],
                             [NoNumbers EXCEPT ![1] = <<20>>, ![3] = <<35>>]) >>
          [] OTHER -> <<>>]

ScenarioInit ==
  /\ OrchInit
  /\ db = EmptyDb
  /\ stg = EmptyStaging
  /\ atStart = [db |-> EmptyDb, stg |-> EmptyStaging]
  /\ \E orphans \in {S \in SUBSET (1..10) : Cardinality(S) = 2} :
       upload = [present |-> AllFiles, corrupt |-> {}, rows |-> ScenarioRows(orphans)]
  /\ djob = QueuedJob
  /\ dlog = <<>>
  /\ report = <<>>
  /\ pl = StartPl
  /\ ov \in BOOLEAN
  /\ run = 1
  /\ dcrashes = 0
  /\ prev = NoPrev

ScenarioNext ==
  \/ JobStart
  \/ JobPrepare
  \/ JobSchema
  \/ JobTruncateCore
  \/ JobTruncateStaging
  \/ JobLoadOpen
  \/ JobLoadRecord
  \/ JobMaster
  \/ JobSalesBegin
  \/ JobSaleHeader
  \/ JobSaleDelete
  \/ JobSaleItem
  \/ JobPaymentsBegin
  \/ JobStockBegin
  \/ JobReport
  \/ JobSetCompleted
  \/ JobLogCompleted

SpecScenario == ScenarioInit /\ [][ScenarioNext]_vars

\* ----------------------------------------------------------------- SpecRows
\* migrateSales, migrateCustomerPayments and migrateStockMovements over
\* single records whose references vary: either one VENDAS or PEDIDOS record
\* for every combination of order key, date, seller, customer and payment
\* term that is present and known, present and unknown, blank or null; or
\* three payment rows and three stock rows of which the middle one varies.
RowsDb ==
  [SlotsDb EXCEPT
     !.seller = << [id |-> 3, legacy_code |-> "V1", name |-> "Rui"] >>,
     !.customer = << [id |-> 4, legacy_code |-> "C1", name |-> "Ana", status |-> "active"] >>,
     !.payment_term = << [id |-> 5, legacy_code |-> "F1", name |-> "Dinheiro"] >>,
     !.nextId = 6]

HeaderRows(file, pedido, emissao, vend, cli, fpg) ==
  [f \in AllFiles |->
     IF f = file
     THEN << SaleRecord(pedido, emissao, vend, cli, fpg, <<55>>,
                        [NoCodes EXCEPT ![1] = "P1"], [NoNumbers EXCEPT ![1] = <<20>>],
                        [NoNumbers EXCEPT ![1] = <<10>>], [NoNumbers EXCEPT ![1] = <<20>>]) >>
     ELSE <<>>]

AuxRows(cli, prod, tip) ==
  [f \in AllFiles |->
     CASE f = "PAGAMENT.DBF" ->
            << [cod_cli |-> "C1", vlr_pago |-> <<100>>, pagamento |-> D1],
               [cod_cli |-> cli, vlr_pago |-> <<50>>, pagamento |-> D2],
               [cod_cli |-> "C1", vlr_pago |-> <<30>>, pagamento |-> NULL] >>
       [] f = "MOV_EST.DBF" ->
            << [tip_mov |-> "E", data |-> D1, cod_prod |-> "P1", qtde_mov |-> <<50>>],
               [tip_mov |-> tip, data |-> D2, cod_prod |-> prod, qtde_mov |-> <<10>>],
               [tip_mov |-> "S", data |-> D2, cod_prod |-> "P2", qtde_mov |-> <<20>>] >>
       [] OTHER -> <<>>]

\* the staging tables after loadDbfIntoStaging of every file of the upload
StagedUpload(rows) ==
  [t \in StagingTables |->
     LET file == STAGING_CONFIG[CHOOSE i \in 1..NConfigs : STAGING_CONFIG[i].table = t].file
     IN [k \in 1..Len(rows[file]) |-> StageRecord(rows[file][k])]]

RowsInit ==
  /\ OrchInit
  /\ db = RowsDb
  /\ \E rows \in
        {HeaderRows(file, pedido, emissao, vend, cli, fpg) :
           file \in {"VENDAS.DBF", "PEDIDOS.DBF"}, pedido \in {"100", "", NULL},
           emissao \in {D1, "", NULL}, vend \in {"V1", "VX", "", NULL},
           cli \in {"C1", "C9", ""}, fpg \in {"F1", "F9", NULL}}
        \cup {AuxRows(cli, prod, tip) :
                cli \in {"C1", "C9", "", NULL}, prod \in {"P1", "PX", "", NULL},
                tip \in {"S", "X"}} :
       /\ upload = [present |-> AllFiles, corrupt |-> {}, rows |-> rows]
       /\ stg = StagedUpload(rows)
  /\ atStart = [db |-> db, stg |-> stg]
  /\ djob = [QueuedJob EXCEPT !.status = "running", !.started_at = TRUE]
  /\ dlog = <<>>
  /\ report = <<>>
  /\ pl = [StartPl EXCEPT !.at = "sales_begin"]
  /\ ov = FALSE
  /\ run = 1
  /\ dcrashes = 0
  /\ prev = NoPrev

RowsNext ==
  \/ JobSalesBegin
  \/ JobSaleHeader
  \/ JobSaleDelete
  \/ JobSaleItem
  \/ JobPaymentsBegin
  \/ JobPayment
  \/ JobStockBegin
  \/ JobStock
  \/ JobCatchLog
  \/ JobCatchUpdate

SpecRows == RowsInit /\ [][RowsNext]_vars

\* ------------------------------------------------------------------ SpecLog
\* One job on a fresh installation with process restarts, for the complete
\* export and for the export whose VENDAS.DBF cannot be decoded, and what
\* the status query returns for it.
\* select level, message, created_at from system_legacy_import_log where
\* import_id = $1 order by id: the rows of the job, each with the bigserial
\* id it got on insertion, as the sequence of (level, message) by rising id
RECURSIVE OrderById(_)
OrderById(rows) ==
  IF rows = {} THEN <<>>
  ELSE LET first == CHOOSE r \in rows : \A q \in rows : r.id <= q.id
       IN <<first>> \o OrderById(rows \ {first})

getLegacyImportStatus(job, rows) ==
  [status |-> job.status, summary |-> job.summary, error |-> job.error_message,
   reportAvailable |-> job.report_path,
   logs |-> LET ordered == OrderById(rows)
            IN [i \in 1..Len(ordered) |-> <<ordered[i].level, ordered[i].message>>]]

LogInit ==
  /\ DataInit
  /\ db = EmptyDb
  /\ upload \in {CompleteUpload, [CompleteUpload EXCEPT !.corrupt = {"VENDAS.DBF"}]}

SpecLog == LogInit /\ [][CrashNext]_vars

\* ================================================================= claims
TypeOK ==
  /\ processing \in BOOLEAN
  /\ \A j \in JobIds : jobs[j].status \in {"none", "queued", "running", "completed", "failed"}

\* C1: in every reachable state at most one processQueue invocation is
\* inside its loop, hence at most one runImport pipeline is executing.
C1_SingleFlight == Cardinality(ActiveDrainers) <= 1

\* a job is waiting in the queue while another pipeline is executing: the
\* processQueue call that queued it returned without starting it
C1_Witness ==
  /\ Cardinality(ActiveDrainers) = 1
  /\ processing
  /\ jobQueue # <<>>
  /\ \E d \in ActiveDrainers : drainers[d].pc = "stages"

\* C2 (as claimed): a job goes back to queued only on the startup-recovery
\* path, for a job left running by an earlier process: never a job that
\* this process itself has set to running.
C2_NoRequeueOfOwnJob ==
  [][\A j \in JobIds :
       (jobs[j].status \notin {"none", "queued"} /\ jobs'[j].status = "queued")
         => j \notin startedHere]_vars

\* C3 (as claimed): once the persisted status of a job is completed or
\* failed, no later step changes it.
C3_TerminalStatusIsFinal ==
  [][\A j \in JobIds :
       jobs[j].status \in {"completed", "failed"} => jobs'[j].status = jobs[j].status]_vars

\* C8 (as claimed, its last part): once initializeLegacyImportWorker has
\* re-enqueued the recovered jobs and the worker has come to rest, every
\* re-enqueued job has reached completed or failed.
C8_RecoveredJobsFinish ==
  (initPc = "done" /\ ActiveDrainers = {})
    => \A j \in recovered : jobs[j].status \in {"completed", "failed"}

\* C13 (as claimed): a job persisted as failed has an error message and no
\* report path (reportAvailable = Boolean(report_path) is false and
\* getLegacyImportReport returns null).
C13_FailedHasNoReport ==
  \A j \in JobIds :
    jobs[j].status = "failed" => jobs[j].error_message /\ ~jobs[j].report_path

InCatch(d) == drainers[d].pc \in {"catch_log", "catch_update"}

\* C16 (as claimed): when an error of a job has been caught, the worker
\* leaves the catch block only with the job persisted as failed, with its
\* error message and finish time, and then takes the next job of the queue
\* (or, the queue being empty, clears the processing flag).
C16_CaughtErrorIsRecorded ==
  [][\A d \in DrainerIds :
       (InCatch(d) /\ ~InCatch(d)' /\ crashes' = crashes)
         => LET j == drainers[d].job
            IN /\ jobs'[j].status = "failed"
               /\ jobs'[j].error_message
               /\ jobs'[j].finished_at
               /\ IF jobQueue # <<>>
                  THEN drainers'[d] = [pc |-> "set_running", job |-> Head(jobQueue)]
                  ELSE ~processing']_vars

\* C17: the step in which queueLegacyImport(j) returns to the route changes
\* no persisted job (no stage of j has run), leaves every running pipeline
\* where it was, and either only appends j to the queue or hands the head
\* of the queue to a processQueue suspended at its first await.
C17_EnqueueReturnsAtOnce ==
  [][\A j \in JobIds :
       (j \in route /\ j \notin route' /\ crashes' = crashes)
         => /\ jobs' = jobs
            /\ \A d \in DrainerIds : Active(d) => drainers'[d] = drainers[d]
            /\ \/ jobQueue' = Append(jobQueue, j) /\ drainers' = drainers
               \/ /\ jobQueue' = Tail(Append(jobQueue, j))
                  /\ \E d \in DrainerIds :
                       /\ ~Active(d)
                       /\ drainers' = [drainers EXCEPT ![d] =
                            [pc |-> "set_running", job |-> Head(Append(jobQueue, j))]]]_vars

\* the call has returned, its job is still persisted as queued and its
\* pipeline stands before its first write
C17_Witness ==
  /\ initPc = "schema"
  /\ \E j \in JobIds :
       /\ j \notin route
       /\ jobs[j].status = "queued"
       /\ \E d \in DrainerIds : drainers[d] = [pc |-> "set_running", job |-> j]

IsPrefix(p, q) == Len(p) <= Len(q) /\ SubSeq(q, 1, Len(p)) = p

\* drainer d takes a job in this step
Takes(d) == drainers'[d].pc = "set_running" /\ drainers'[d] # drainers[d]

\* C18: within one process lifetime the queue is first in, first out: a
\* step only appends at the end of the queue, and a job that is taken is
\* the oldest entry; the rows recovered at startup are appended in creation
\* order; and when a job is about to start, every job started before it is
\* persisted as completed or failed.
C18_Fifo ==
  /\ [][crashes' = crashes =>
          /\ IF \E d \in DrainerIds : Takes(d)
             THEN \A d \in DrainerIds :
                    Takes(d) => IsPrefix(jobQueue, <<drainers'[d].job>> \o jobQueue')
             ELSE IsPrefix(jobQueue, jobQueue')
          /\ (initPc = "push" /\ initPc' = "done")
               => \/ jobQueue' = jobQueue \o initRows
                  \/ \E d \in DrainerIds :
                       Takes(d) /\ <<drainers'[d].job>> \o jobQueue' = jobQueue \o initRows]_vars
  /\ [](\A i, k \in 1..Len(initRows) : i < k => initRows[i] < initRows[k])
  /\ [](\A d \in DrainerIds :
          drainers[d].pc = "set_running"
            => \A a \in startedHere \ {drainers[d].job} :
                 jobs[a].status \in {"completed", "failed"})

\* the second job is about to start while the first, started before it,
\* has ended, and a third entry waits behind it
C18_Witness ==
  /\ \E d \in DrainerIds : drainers[d] = [pc |-> "set_running", job |-> 2]
  /\ 1 \in startedHere
  /\ jobs[1].status \in {"completed", "failed"}
  /\ jobQueue # <<>>

\* C28 (as claimed): within one process lifetime the queue never holds a
\* job twice, never holds a job that a pipeline holds or that has started,
\* and no pipeline starts a job that has started before.
C28_AtMostOnce ==
  /\ [](\A i, k \in 1..Len(jobQueue) : i # k => jobQueue[i] # jobQueue[k])
  /\ [](\A i \in 1..Len(jobQueue) :
          /\ jobQueue[i] \notin startedHere
          /\ \A d \in DrainerIds : Active(d) => drainers[d].job # jobQueue[i])
  /\ [][\A d \in DrainerIds :
          (drainers[d].pc = "set_running" /\ drainers'[d].pc = "log_prepare")
            => drainers[d].job \notin startedHere]_vars

InQueue(j) == \E i \in 1..Len(jobQueue) : jobQueue[i] = j

\* C29 (as claimed): when every awaited operation eventually returns or
\* throws, a job that is in the queue is eventually persisted as completed
\* or failed, unless the process is restarted first.
C29_QueuedJobsEnd ==
  \A j \in JobIds : \A n \in 0..MaxCrashes :
    [](InQueue(j) /\ crashes = n
         => <>(jobs[j].status \in {"completed", "failed"} \/ crashes > n))

\* ------------------------------------------------------------- data claims
MissingRequiredFile == \E f \in REQUIRED_FILES : f \notin upload.present

\* C4: a job whose upload lacks a required file leaves every core table and
\* every staging table as it found them, at each of its steps and at its
\* end, whatever the overwrite flag, and ends failed.
C4_FailBeforeDestroy ==
  (run >= 1 /\ MissingRequiredFile)
    => /\ db = atStart.db
       /\ stg = atStart.stg
       /\ pl.at = "done" => djob.status = "failed"

C4_Witness ==
  /\ MissingRequiredFile
  /\ ov
  /\ pl.at = "done"
  /\ djob.status = "failed"
  /\ db = SeededDb
  /\ stg = SeededStaging

\* every row the table held when the job was submitted is still there
KeepsRows(before, after) ==
  \A i \in 1..Len(before) : \E k \in 1..Len(after) : after[k] = before[i]

\* C5 (as claimed): a job that aborts on an unreadable source file leaves
\* every pre-existing row of every core table in place, also under overwrite.
C5_CorruptUploadKeepsCore ==
  (pl.at = "done" /\ djob.status = "failed" /\ upload.corrupt # {})
    => \A t \in CoreTables : KeepsRows(atStart.db[t], db[t])

\* C6: after a second job for the same upload with overwrite = false, each
\* reference table has as many rows as after the job before it, and every
\* legacy code is still on the row (the id) that held it.
SameCodesSameIds(before, after) ==
  \A i \in 1..Len(before) :
    before[i].legacy_code # NULL
      => \E k \in 1..Len(after) : /\ after[k].legacy_code = before[i].legacy_code
                                  /\ after[k].id = before[i].id

C6_ReimportKeepsReferenceRows ==
  (pl.at = "done" /\ run >= 2 /\ ~ov)
    => \A t \in ReferenceTables :
         /\ Len(db[t]) = Len(prev.db[t])
         /\ SameCodesSameIds(prev.db[t], db[t])

C6_Witness ==
  /\ pl.at = "done" /\ run = 2 /\ ~ov
  /\ djob.status = "completed" /\ prev.status = "completed"
  /\ Len(db.product) >= 2 /\ Len(db.customer) >= 2

\* C7 (as claimed): after a second job for the same upload with
\* overwrite = false, every core table, customer_payment and stock_movement
\* included, has as many rows as after the job before it.
C7_ResubmissionConverges ==
  (pl.at = "done" /\ run >= 2 /\ ~ov /\ prev.status = "completed")
    => \A t \in CoreTables : Len(db[t]) = Len(prev.db[t])

\* a core table without its generated ids: each reference is replaced by
\* the legacy code (or source and key) of the row it points to
KeyOf(tbl, id) ==
  IF \E i \in 1..Len(tbl) : tbl[i].id = id
  THEN LET r == tbl[CHOOSE i \in 1..Len(tbl) : tbl[i].id = id]
       IN IF "legacy_code" \in DOMAIN r THEN <<r.legacy_code>> ELSE <<r.source, r.source_key>>
  ELSE <<>>

Target(col) ==
  CASE col = "group_id" -> "product_group"
    [] col = "product_id" -> "product"
    [] col = "customer_id" -> "customer"
    [] col = "seller_id" -> "seller"
    [] col = "payment_term_id" -> "payment_term"
    [] col = "sale_id" -> "sale"

ForeignKeys == {"group_id", "product_id", "customer_id", "seller_id", "payment_term_id", "sale_id"}

Contents(d) ==
  [t \in CoreTables |->
     [i \in 1..Len(d[t]) |->
        [f \in DOMAIN d[t][i] \ {"id"} |->
           IF f \in ForeignKeys THEN KeyOf(d[Target(f)], d[t][i][f]) ELSE <<d[t][i][f]>>]]]

UninterruptedRun ==
  RunToEnd([db |-> atStart.db, stg |-> atStart.stg, job |-> QueuedJob, log |-> <<>>,
            report |-> <<>>, pl |-> StartPl], upload, ov)

\* C9 (as claimed): when a job with overwrite = false was interrupted by a
\* restart and run again from its first step, the core tables end with the
\* contents one uninterrupted run of the job gives on the same initial data.
C9_CrashThenRerunEqualsOneRun ==
  (pl.at = "done" /\ ~ov /\ dcrashes > 0 /\ djob.status = "completed")
    => Contents(db) = Contents(UninterruptedRun.db)

\* the lines of a report that stand for a mismatch
MismatchLines(rep) == {i \in 1..Len(rep) : rep[i][1] = "mismatch"}

\* C12: a job persisted as completed has a report path, a persisted summary
\* and a report file with one line per mismatch; once a mismatch has been
\* recorded the job never enters the catch block, and every job for the
\* complete export, which has unresolved product codes, ends completed.
C12_CompletedHasReport ==
  /\ djob.status = "completed"
       => /\ djob.report_path
          /\ djob.summary # <<>>
          /\ report # <<>>
          /\ Cardinality(MismatchLines(report)) = Len(djob.summary[1].mismatches)
  /\ pl.sum.mismatches # <<>> => pl.at \notin {"catch_log", "catch_update"}
  /\ (pl.at = "done" /\ upload = CompleteUpload)
       => djob.status = "completed" /\ djob.summary[1].mismatches # <<>>

C12_Witness ==
  /\ pl.at = "done"
  /\ djob.status = "completed"
  /\ djob.report_path
  /\ Len(djob.summary[1].mismatches) >= 1
  /\ MismatchLines(report) # {}

\* the number of slots with a product code over the rows of a staging table
RECURSIVE StagedSlots(_)
StagedSlots(rows) ==
  IF rows = <<>> THEN 0
  ELSE Cardinality({i \in Slots : ~Falsy(Head(rows).cod[i])}) + StagedSlots(Tail(rows))

\* the per-entity lines the claim describes: staging count, core count
GroundTruth ==
  << <<"product_groups", <<Len(stg["stg_grupo"])>>, <<Len(db.product_group)>> >>,
     <<"products", <<Len(stg["stg_produto"])>>, <<Len(db.product)>> >>,
     <<"customers", <<Len(stg["stg_clientes"])>>, <<Len(db.customer)>> >>,
     <<"sales", <<Len(stg["stg_vendas"])>>, <<CountSales(db, "VENDAS")>> >>,
     <<"sale_items", <<StagedSlots(stg["stg_vendas"])>>, <<CountSaleItems(db, "VENDAS")>> >>,
     <<"orders", <<Len(stg["stg_pedidos"])>>, <<CountSales(db, "PEDIDOS")>> >>,
     <<"order_items", <<StagedSlots(stg["stg_pedidos"])>>, <<CountSaleItems(db, "PEDIDOS")>> >>,
     <<"customer_payments", <<Len(stg["stg_pagament"])>>, <<Len(db.customer_payment)>> >>,
     <<"stock_movements", <<Len(stg["stg_mov_est"])>>, <<Len(db.stock_movement)>> >> >>

\* C14 (as claimed): when the report has just been written, each of its
\* nine per-entity lines carries the row count of the entity's staging
\* table and the row count of its core table.
C14_ReportMatchesGroundTruth ==
  pl.at = "set_completed" => SubSeq(report, 1, 9) = GroundTruth

IdsOf(tbl) == {tbl[i].id : i \in 1..Len(tbl)}

\* the sales a job with overwrite may delete: those of this import's sources
ImportedSaleIds(d) ==
  {d.sale[i].id : i \in {k \in 1..Len(d.sale) : d.sale[k].source \in {"VENDAS", "PEDIDOS"}}}

\* C15 (as claimed): a job with overwrite that completes keeps every
\* reference row it found (updated or not) and every sale of another
\* origin, with the items of that sale.
C15_OverwriteKeepsOtherRows ==
  (pl.at = "done" /\ ov /\ djob.status = "completed")
    => /\ \A t \in ReferenceTables : IdsOf(atStart.db[t]) \subseteq IdsOf(db[t])
       /\ \A i \in 1..Len(atStart.db.sale) :
            atStart.db.sale[i].id \notin ImportedSaleIds(atStart.db)
              => \E k \in 1..Len(db.sale) : db.sale[k] = atStart.db.sale[i]
       /\ \A i \in 1..Len(atStart.db.sale_item) :
            atStart.db.sale_item[i].sale_id \notin ImportedSaleIds(atStart.db)
              => \E k \in 1..Len(db.sale_item) : db.sale_item[k] = atStart.db.sale_item[i]

\* the stages of a run in the order of the pipeline; a run that has ended,
\* normally or through the catch block, is past the last of them
StageRank(at) ==
  CASE at \in {"idle", "start"} -> 0
    [] at = "prepare" -> 1
    [] at \in {"schema", "truncate_core", "truncate_stg", "load"} -> 2
    [] at = "master" -> 3
    [] at \in {"sales_begin", "sale_header", "sale_delete", "sale_item"} -> 4
    [] at \in {"payments_begin", "payment"} -> 5
    [] at \in {"stock_begin", "stock"} -> 6
    [] at = "report" -> 7
    [] at \in {"set_completed", "log_completed"} -> 8
    [] OTHER -> 9

FileRank(file) == CHOOSE i \in 1..NConfigs : STAGING_CONFIG[i].file = file

\* the place of an info message in the sequence of the stage boundaries
LogRank(m) ==
  CASE m[1] = "Preparing" -> 1
    [] m[1] = "Clearing" -> 2
    [] m[1] = "Loading" -> 2 + FileRank(m[2])
    [] m[1] = "Migrating master data" -> 20
    [] m[1] = "Migrating sales" -> 21
    [] m[1] = "Migrating customer payments" -> 22
    [] m[1] = "Migrating stock movements" -> 23
    [] m[1] = "Generating reconciliation report" -> 24
    [] m[1] = "completed" -> 25

InfoEntries(log) == SelectSeq(log, LAMBDA e : e[1] = "info")

\* the legacy codes the product statement of migrateMasterData writes
StagedProductCodes ==
  {Trim(stg["stg_produto"][i].cod_prod) :
     i \in {k \in 1..Len(stg["stg_produto"]) : stg["stg_produto"][k].cod_prod # NULL}}

\* C19: within one run the position of the pipeline never goes back to an
\* earlier stage; the info entries of the job's log follow the order of the
\* stage boundaries; and while the transaction migrator works, its product
\* lookup table holds every product code of the staged export, that is, it
\* was built after master data migration had finished.
C19_StagesInOrder ==
  /\ [][run' = run /\ dcrashes' = dcrashes => StageRank(pl'.at) >= StageRank(pl.at)]_vars
  /\ [](LET info == InfoEntries(dlog)
        IN \A i, k \in 1..Len(info) : i < k => LogRank(info[i][2]) < LogRank(info[k][2]))
  /\ [](pl.at \in {"sale_header", "sale_delete", "sale_item"}
          => /\ pl.maps = BuildMaps(db)
             /\ \A code \in StagedProductCodes \ {""} : code \in DOMAIN pl.maps.product)

\* a run with overwrite that reached its end with all its boundary entries
C19_Witness ==
  /\ pl.at = "done"
  /\ djob.status = "completed"
  /\ ov
  /\ Len(InfoEntries(dlog)) = 17
  /\ Len(db.product) >= 2

\* the staging load of the run has just finished
StagingLoaded == pl.at = "master" /\ pl.i = 1

\* C20: when the staging load of a job has finished, the staging table of
\* every source present in the job's upload holds the records decoded from
\* that file, one row per record in file order and nothing else, and the
\* staging table of every absent source is empty, whatever an earlier run
\* had left in it.
C20_StagingIsThisUpload ==
  StagingLoaded =>
    \A n \in 1..NConfigs :
      LET cfg == STAGING_CONFIG[n]
      IN IF cfg.file \in upload.present
         THEN /\ Len(stg[cfg.table]) = Len(upload.rows[cfg.file])
              /\ \A k \in 1..Len(stg[cfg.table]) :
                   stg[cfg.table][k] = StageRecord(upload.rows[cfg.file][k])
         ELSE stg[cfg.table] = <<>>

\* an installation whose staging held payments of an earlier run, and an
\* upload without PAGAMENT.DBF
C20_Witness ==
  /\ StagingLoaded
  /\ atStart.stg["stg_pagament"] # <<>>
  /\ "PAGAMENT.DBF" \notin upload.present
  /\ stg["stg_pagament"] = <<>>
  /\ Len(stg["stg_vendas"]) = 3

\* ------------------------------------------------------------ slot claims
TheRecord == upload.rows["VENDAS.DBF"][1]

\* the decoded value of a slot column: null counts as 0
SlotValue(v) == IF v = <<>> THEN 0 ELSE v[1]

Populated(rec) == {i \in Slots : rec.cod[i] # NULL /\ Trim(rec.cod[i]) # ""}

KnownProduct(code) == \E i \in 1..Len(db.product) : db.product[i].legacy_code = code

ProductIdOf(code) ==
  db.product[CHOOSE i \in 1..Len(db.product) : db.product[i].legacy_code = code].id

Emitted(rec) == {i \in Populated(rec) : KnownProduct(Trim(rec.cod[i]))}

\* the sale_item rows of the record's sale, in insertion order, without ids
ItemsOfRecord(rec) ==
  LET sid == db.sale[SaleIndex(db, "VENDAS", Trim(rec.pedido))].id
      RECURSIVE Pick(_)
      Pick(tbl) == IF tbl = <<>> THEN <<>>
                   ELSE (IF Head(tbl).sale_id = sid
                         THEN << [product_id |-> Head(tbl).product_id,
                                  quantity |-> Head(tbl).quantity,
                                  unit_price |-> Head(tbl).unit_price,
                                  total |-> Head(tbl).total] >>
                         ELSE <<>>) \o Pick(Tail(tbl))
  IN Pick(db.sale_item)

\* the i-th smallest element of a set of slots
RECURSIVE Nth(_, _)
Nth(S, n) ==
  LET m == CHOOSE x \in S : \A y \in S : x <= y
  IN IF n = 1 THEN m ELSE Nth(S \ {m}, n - 1)

SlotsProcessed == pl.at = "payments_begin"

\* C10 (as claimed): the record's sale has one item per slot with a
\* non-empty product code.
C10_OneItemPerPopulatedSlot ==
  SlotsProcessed => Len(ItemsOfRecord(TheRecord)) = Cardinality(Populated(TheRecord))

\* C10 (amended): the record's sale has one item per slot whose product
\* code is non-empty and found in the product table, in slot order, and
\* the item of slot i carries the quantity, unit price and line total of
\* slot i and of no other slot.
C10_ItemsMatchResolvedSlots ==
  SlotsProcessed =>
    LET rec == TheRecord
        items == ItemsOfRecord(rec)
    IN /\ Len(items) = Cardinality(Emitted(rec))
       /\ \A n \in 1..Len(items) :
            LET i == Nth(Emitted(rec), n)
            IN /\ items[n].product_id = ProductIdOf(Trim(rec.cod[i]))
               /\ items[n].quantity = SlotValue(rec.qtde[i])
               /\ items[n].unit_price = SlotValue(rec.vlr[i])
               /\ items[n].total = SlotValue(rec.total[i])

\* slots 1 and 3 populated with slot 2 empty, an unknown code further on
C10_Witness ==
  /\ SlotsProcessed
  /\ TheRecord.cod[1] = "P1" /\ TheRecord.cod[2] = "" /\ TheRecord.cod[3] = "P1"
  /\ TheRecord.cod[5] = "PX"
  /\ Len(ItemsOfRecord(TheRecord)) = 2

\* ---------------------------------------------------------- family claims
FamilyFile(source) == IF source = "VENDAS" THEN "VENDAS.DBF" ELSE "PEDIDOS.DBF"

FamilyRecord(source) == upload.rows[FamilyFile(source)][1]

Unresolved(rec) == Populated(rec) \ Emitted(rec)

\* the product ids of the sale_item rows of a sale, in insertion order
RECURSIVE ProductsOf(_, _)
ProductsOf(tbl, sid) ==
  IF tbl = <<>> THEN <<>>
  ELSE (IF Head(tbl).sale_id = sid THEN <<Head(tbl).product_id>> ELSE <<>>)
       \o ProductsOf(Tail(tbl), sid)

MigrateSalesReturned == pl.at = "payments_begin"

\* what migrateSales leaves for the record of a family when the mismatch
\* string opens with the given word
SkipsUnresolved(source, word) ==
  LET rec == FamilyRecord(source)
      key == Trim(rec.pedido)
      s == SaleIndex(db, source, key)
  IN /\ s # 0
     /\ \A i \in Unresolved(rec) :
          \E m \in 1..Len(pl.sum.mismatches) :
            pl.sum.mismatches[m] = <<word, key, "product", Trim(rec.cod[i]), "not found">>
     /\ LET got == ProductsOf(db.sale_item, db.sale[s].id)
        IN /\ Len(got) = Cardinality(Emitted(rec))
           /\ \A n \in 1..Len(got) :
                got[n] = ProductIdOf(Trim(rec.cod[Nth(Emitted(rec), n)]))

\* C11 (as claimed): a slot whose code is not in the product table gives no
\* item and a mismatch "Sale <key>: product <code> not found", the header
\* exists, the other slots give their items and nothing throws, for the
\* sales record and for the open-order record alike.
C11_MismatchSaysSale ==
  /\ pl.at # "catch_log"
  /\ MigrateSalesReturned =>
       SkipsUnresolved("VENDAS", "Sale") /\ SkipsUnresolved("PEDIDOS", "Sale")

\* C11 (amended): the same, the mismatch of a sales record reading
\* "Sale <key>: product <code> not found" and the mismatch of an open-order
\* record "Order <key>: product <code> not found".
C11_MismatchNamesFamily ==
  /\ pl.at # "catch_log"
  /\ MigrateSalesReturned =>
       SkipsUnresolved("VENDAS", "Sale") /\ SkipsUnresolved("PEDIDOS", "Order")

\* both records have an unknown code in slot 1 and a known one after it
C11_Witness ==
  /\ MigrateSalesReturned
  /\ \A source \in {"VENDAS", "PEDIDOS"} :
       /\ FamilyRecord(source).cod[1] = "PX"
       /\ FamilyRecord(source).cod[4] = "P1"
       /\ Len(ProductsOf(db.sale_item,
                         db.sale[SaleIndex(db, source, "100")].id)) >= 1
  /\ Len(pl.sum.mismatches) >= 2

\* ----------------------------------------------------- sale header claims
\* the order keys the records of a source file carry (`if (!sourceKey) continue`)
UploadKeys(file) ==
  {SourceKey(StageRecord(upload.rows[file][i])) : i \in 1..Len(upload.rows[file])} \ {NULL}

JobCompleted == pl.at = "done" /\ djob.status = "completed"

\* C21: after a completed import run every sale row of a VENDAS record of
\* the upload has status completed and every sale row of a PEDIDOS record
\* of the upload has status draft, whatever status the row had before.
C21_ImportedStatusBySource ==
  JobCompleted =>
    \A f \in 1..Len(FAMILIES) :
      \A i \in 1..Len(db.sale) :
        (/\ db.sale[i].source = FAMILIES[f].source
         /\ FamilyFile(FAMILIES[f].source) \in upload.present
         /\ db.sale[i].source_key \in UploadKeys(FamilyFile(FAMILIES[f].source)))
        => db.sale[i].status = FAMILIES[f].status

\* --------------------------------------------------------- scenario claims
\* the products of the export whose group code no product_group row has
OrphanCodes ==
  LET src == upload.rows["PRODUTO.DBF"]
  IN {Trim(src[i].cod_prod) :
        i \in {k \in 1..Len(src) : RowIndex(db.product_group, Trim(src[k].cod_grup)) = 0}}

NullGroupCodes ==
  {db.product[i].legacy_code : i \in {k \in 1..Len(db.product) : db.product[k].group_id = NullId}}

\* C22: the job of the scenario completes without an error; it leaves 3
\* product groups, 10 products of which exactly the 2 with an unmatched
\* group code have a null group reference, 1 sale and exactly 2 sale items,
\* the first with the product, quantity, price and total of slot 1 and the
\* second with those of slot 3.
C22_ScenarioResult ==
  /\ pl.at \notin {"catch_log", "catch_update"}
  /\ djob.status # "failed"
  /\ pl.at = "done" =>
       /\ djob.status = "completed"
       /\ Len(db.product_group) = 3
       /\ Len(db.product) = 10
       /\ {db.product[i].legacy_code : i \in 1..10} =
            {Trim(upload.rows["PRODUTO.DBF"][i].cod_prod) : i \in 1..10}
       /\ NullGroupCodes = OrphanCodes
       /\ Cardinality(NullGroupCodes) = 2
       /\ \A i \in 1..10 :
            db.product[i].group_id # NullId =>
              \E g \in 1..3 :
                /\ db.product_group[g].id = db.product[i].group_id
                /\ db.product_group[g].legacy_code =
                     Trim(upload.rows["PRODUTO.DBF"][i].cod_grup)
       /\ Len(db.sale) = 1
       /\ db.sale[1].source = "VENDAS"
       /\ db.sale[1].source_key = "500"
       /\ Len(db.sale_item) = 2
       /\ ItemsOfRecord(TheRecord) =
            << [product_id |-> ProductIdOf("P1"), quantity |-> 20,
                unit_price |-> 10, total |-> 20],
               [product_id |-> ProductIdOf("P7"), quantity |-> 15,
                unit_price |-> 25, total |-> 35] >>

\* the job is over, with overwrite, and product P7 is one of the two orphans
C22_Witness ==
  /\ pl.at = "done"
  /\ ov
  /\ Len(db.sale_item) = 2
  /\ "P7" \in NullGroupCodes
  /\ Cardinality(NullGroupCodes) = 2

\* ------------------------------------------------- optional source claims
OPTIONAL_FILES == AllFiles \ REQUIRED_FILES

TableOf(file) == STAGING_CONFIG[FileRank(file)].table

\* an export that is complete and readable but for optional files left out
OnlyOptionalMissing ==
  /\ upload.rows = BaseRows
  /\ upload.corrupt = {}
  /\ REQUIRED_FILES \subseteq upload.present

Warnings(log, file) ==
  {i \in 1..Len(log) : log[i] = <<"warn", <<"Optional file not provided", file>>>>}

\* C23: a job whose upload lacks nothing but optional files never enters
\* the catch block and never fails; once it is over it is completed, its
\* log holds no error entry and exactly one warn entry for each absent
\* optional file (none for a file that is present), and the staging count
\* of each absent file in its summary is 0.
C23_AbsentOptionalIsSkipped ==
  OnlyOptionalMissing =>
    /\ pl.at \notin {"catch_log", "catch_update"}
    /\ djob.status # "failed"
    /\ \A i \in 1..Len(dlog) : dlog[i][1] # "error"
    /\ pl.at = "done" =>
         /\ djob.status = "completed"
         /\ \A f \in AllFiles :
              Cardinality(Warnings(dlog, f)) = IF f \in upload.present THEN 0 ELSE 1
         /\ \A f \in OPTIONAL_FILES \ upload.present :
              djob.summary[1].staging[TableOf(f)] = 0

\* a completed job of an installation in use whose upload had no PEDIDOS.DBF
C23_Witness ==
  /\ JobCompleted
  /\ "PEDIDOS.DBF" \notin upload.present
  /\ atStart.db = SeededDb
  /\ Warnings(dlog, "PEDIDOS.DBF") # {}
  /\ djob.summary[1].staging["stg_pedidos"] = 0

\* ------------------------------------------------------- re-import claims
\* the rows of the sale table for a (source, source key) pair
SalesOf(source, key) ==
  {i \in 1..Len(db.sale) : db.sale[i].source = source /\ db.sale[i].source_key = key}

\* the last record of a file that carries the key
LastWithKey(file, key) ==
  LET rows == upload.rows[file]
      at == {i \in 1..Len(rows) : SourceKey(StageRecord(rows[i])) = key}
  IN rows[CHOOSE i \in at : \A k \in at : k <= i]

\* the sale_item rows of a sale in insertion order, without their ids
RECURSIVE ItemsOfSale(_, _)
ItemsOfSale(tbl, sid) ==
  IF tbl = <<>> THEN <<>>
  ELSE (IF Head(tbl).sale_id = sid
        THEN << [product_id |-> Head(tbl).product_id, quantity |-> Head(tbl).quantity,
                 unit_price |-> Head(tbl).unit_price, total |-> Head(tbl).total] >>
        ELSE <<>>) \o ItemsOfSale(Tail(tbl), sid)

\* the items the slots of a record give: one per slot whose code is in the
\* product table, in slot order, with that slot's values
SlotItems(rec) ==
  [n \in 1..Cardinality(Emitted(rec)) |->
     LET i == Nth(Emitted(rec), n)
     IN [product_id |-> ProductIdOf(Trim(rec.cod[i])),
         quantity |-> SlotValue(rec.qtde[i]),
         unit_price |-> SlotValue(rec.vlr[i]),
         total |-> SlotValue(rec.total[i])]]

\* C24: no two sale rows ever share a (source, source key) pair; after a
\* completed run, the first or a later one, every order key of the VENDAS
\* and PEDIDOS files of the upload has exactly one sale row per source, the
\* items of that sale are exactly the items of the slots of the record
\* processed in this run, and a VENDAS record and a PEDIDOS record with the
\* same order key have two different sale rows.
C24_RerunDoesNotDuplicate ==
  /\ \A i, k \in 1..Len(db.sale) :
       (/\ i # k
        /\ db.sale[i].source # NULL
        /\ db.sale[i].source = db.sale[k].source)
       => db.sale[i].source_key # db.sale[k].source_key
  /\ \A i, k \in 1..Len(db.sale) : i # k => db.sale[i].id # db.sale[k].id
  /\ JobCompleted =>
       \A f \in 1..Len(FAMILIES) :
         LET source == FAMILIES[f].source
             file == FamilyFile(source)
         IN file \in upload.present =>
              \A key \in UploadKeys(file) :
                /\ Cardinality(SalesOf(source, key)) = 1
                /\ ItemsOfSale(db.sale_item, db.sale[SaleIndex(db, source, key)].id)
                     = SlotItems(LastWithKey(file, key))
                /\ (\A g \in 1..Len(FAMILIES) :
                      (g # f /\ FamilyFile(FAMILIES[g].source) \in upload.present
                       /\ key \in UploadKeys(FamilyFile(FAMILIES[g].source)))
                      => /\ SalesOf(FAMILIES[g].source, key) # {}
                         /\ SalesOf(FAMILIES[g].source, key) \cap SalesOf(source, key) = {})

\* the second run without overwrite has completed after a completed first
\* run, on an installation that held sale 100 with an older item, and the
\* key 100 has a sale of each source
C24_Witness ==
  /\ JobCompleted
  /\ run = 2
  /\ ~ov
  /\ prev.status = "completed"
  /\ Len(prev.db.sale_item) > 1
  /\ SalesOf("VENDAS", "100") # {}
  /\ SalesOf("PEDIDOS", "100") # {}
  /\ Len(ItemsOfSale(db.sale_item, db.sale[SaleIndex(db, "VENDAS", "100")].id)) = 2

\* ------------------------------------------------------------ rows claims
\* the one sales or order record of the upload, and its source
HeaderFile ==
  IF upload.rows["VENDAS.DBF"] # <<>> THEN "VENDAS.DBF"
  ELSE IF upload.rows["PEDIDOS.DBF"] # <<>> THEN "PEDIDOS.DBF" ELSE NULL

HeaderSource == IF HeaderFile = "VENDAS.DBF" THEN "VENDAS" ELSE "PEDIDOS"

\* the id of the row with the legacy code, the null id when there is none
\* or the code is blank or null
IdOrNull(tbl, code) ==
  IF code = NULL \/ Trim(code) = "" \/ RowIndex(tbl, Trim(code)) = 0 THEN NullId
  ELSE tbl[RowIndex(tbl, Trim(code))].id

\* C25: for a sales or order record, the job never enters the catch block;
\* when the record's order key is empty no sale row is created, otherwise
\* once migrateSales has returned the record's sale row exists with the
\* date, seller, customer and payment term that resolve and null for each
\* that does not.
C25_UnresolvedHeaderFieldIsNull ==
  HeaderFile # NULL =>
    LET rec == upload.rows[HeaderFile][1] IN
    /\ pl.at \notin {"catch_log", "catch_update"}
    /\ djob.status # "failed"
    /\ (rec.pedido = NULL \/ Trim(rec.pedido) = "") => db.sale = <<>>
    /\ (pl.at \notin {"sales_begin", "sale_header"}
        /\ ~(rec.pedido = NULL \/ Trim(rec.pedido) = "")) =>
         /\ Len(db.sale) = 1
         /\ db.sale[1].source = HeaderSource
         /\ db.sale[1].source_key = Trim(rec.pedido)
         /\ db.sale[1].emission_date = (IF rec.emissao \in ValidDates THEN rec.emissao ELSE NULL)
         /\ db.sale[1].seller_id = IdOrNull(db.seller, rec.cod_vend)
         /\ db.sale[1].customer_id = IdOrNull(db.customer, rec.cod_cli)
         /\ db.sale[1].payment_term_id = IdOrNull(db.payment_term, rec.cod_fpg)

AuxCase == HeaderFile = NULL

PaymentsReturned == pl.at \in {"stock_begin", "stock", "report"}

\* the rows a table should hold for the records whose code resolves, in
\* record order, without their ids
RECURSIVE ExpectedPayments(_)
ExpectedPayments(recs) ==
  IF recs = <<>> THEN <<>>
  ELSE (IF IdOrNull(db.customer, Head(recs).cod_cli) = NullId THEN <<>>
        ELSE << [customer_id |-> IdOrNull(db.customer, Head(recs).cod_cli),
                 payment_date |-> Head(recs).pagamento,
                 paid_value |-> Head(recs).vlr_pago] >>)
       \o ExpectedPayments(Tail(recs))

RECURSIVE ExpectedMovements(_)
ExpectedMovements(recs) ==
  IF recs = <<>> THEN <<>>
  ELSE (IF IdOrNull(db.product, Head(recs).cod_prod) = NullId THEN <<>>
        ELSE << [product_id |-> IdOrNull(db.product, Head(recs).cod_prod),
                 date |-> Head(recs).data, type |-> Head(recs).tip_mov,
                 quantity |-> Head(recs).qtde_mov] >>)
       \o ExpectedMovements(Tail(recs))

WithoutId(tbl) == [i \in 1..Len(tbl) |-> [f \in DOMAIN tbl[i] \ {"id"} |-> tbl[i][f]]]

\* C26: in the auxiliary migrators no mismatch is recorded and each counter
\* equals the number of rows inserted; once migrateCustomerPayments has
\* returned, customer_payment holds one row for every payment record whose
\* customer code resolves and none for the record whose code is empty or
\* unknown; when the stock record that varies has an empty or unknown
\* product code the job never enters the catch block and, once
\* migrateStockMovements has returned, stock_movement holds one row for
\* each of the other records.
C26_UnresolvedAuxRowIsSkipped ==
  AuxCase =>
    LET pay == upload.rows["PAGAMENT.DBF"]
        mov == upload.rows["MOV_EST.DBF"]
    IN /\ pl.sum.mismatches = <<>>
       /\ pl.at # "done" =>
            /\ pl.sum.customerPayments = Len(db.customer_payment)
            /\ pl.sum.stockMovements = Len(db.stock_movement)
       /\ PaymentsReturned => WithoutId(db.customer_payment) = ExpectedPayments(pay)
       /\ IdOrNull(db.product, mov[2].cod_prod) = NullId =>
            /\ pl.at \notin {"catch_log", "catch_update"}
            /\ djob.status # "failed"
            /\ pl.at = "report" =>
                 /\ WithoutId(db.stock_movement) = ExpectedMovements(mov)
                 /\ Len(db.stock_movement) = 2

\* both migrators have returned; the middle payment record names an unknown
\* customer and the middle stock record has an empty product code and a
\* movement type the table would reject
C26_Witness ==
  /\ AuxCase
  /\ pl.at = "report"
  /\ upload.rows["PAGAMENT.DBF"][2].cod_cli = "C9"
  /\ upload.rows["MOV_EST.DBF"][2].cod_prod = ""
  /\ upload.rows["MOV_EST.DBF"][2].tip_mov = "X"
  /\ Len(db.customer_payment) = 2
  /\ Len(db.stock_movement) = 2

\* -------------------------------------------------------------- log claims
\* the rows of system_legacy_import_log of the job: appendLog inserts one
\* row per call and the sequence behind id hands out rising numbers
LogTable(log) ==
  {[id |-> i, level |-> log[i][1], message |-> log[i][2]] : i \in 1..Len(log)}

\* C27: every step of the job, of the catch block and of a restart with its
\* recovery leaves the job's record in place and its earlier log entries
\* as they were, adding entries only at the end; and at every moment the
\* status query returns the entries in the order in which they were added.
C27_LogOnlyGrows ==
  /\ [][/\ IsPrefix(dlog, dlog')
        /\ djob'.status \in {"queued", "running", "completed", "failed"}]_vars
  /\ [](getLegacyImportStatus(djob, LogTable(dlog)).logs = dlog)

\* the job was restarted and run again to its end: its log holds the
\* entries of both executions, the first "Preparing" entry still first
C27_Witness ==
  /\ dcrashes = 1
  /\ pl.at = "done"
  /\ Cardinality({i \in 1..Len(dlog) : dlog[i] = <<"info", <<"Preparing">>>>}) = 2
  /\ \E i \in 1..Len(dlog) : dlog[i][1] = "error"
  /\ getLegacyImportStatus(djob, LogTable(dlog)).logs[1] = <<"info", <<"Preparing">>>>

\* ------------------------------------------------------ accounting claims
\* the mismatch strings of the summary recorded for a record of a family
MismatchesOf(source, key) ==
  {m \in 1..Len(pl.sum.mismatches) :
     /\ pl.sum.mismatches[m][1] = (IF source = "VENDAS" THEN "Sale" ELSE "Order")
     /\ pl.sum.mismatches[m][2] = key}

ItemCounter(source) == IF source = "VENDAS" THEN pl.sum.saleItems ELSE pl.sum.orderItems

\* C30: once migrateSales has returned, for the sales record and for the
\* open-order record alike, the sale_item rows of the record's sale plus
\* the mismatch strings recorded for the record are as many as the slots
\* of the record with a non-empty product code, no mismatch belongs to
\* neither record, and the saleItems and orderItems counters equal the
\* number of rows inserted for their family.
C30_EverySlotAccountedOnce ==
  MigrateSalesReturned =>
    /\ \A f \in 1..Len(FAMILIES) :
         LET source == FAMILIES[f].source
             rec == FamilyRecord(source)
             key == Trim(rec.pedido)
             items == ProductsOf(db.sale_item, db.sale[SaleIndex(db, source, key)].id)
         IN /\ SaleIndex(db, source, key) # 0
            /\ Len(items) + Cardinality(MismatchesOf(source, key)) =
                 Cardinality(Populated(rec))
            /\ ItemCounter(source) = Len(items)
            /\ CountSaleItems(db, source) = Len(items)
    /\ Len(pl.sum.mismatches) =
         Cardinality(MismatchesOf("VENDAS", "100")) + Cardinality(MismatchesOf("PEDIDOS", "100"))

\* the sales record has the same unknown code in two slots and a known one
\* in the third, the order record one known and one unknown code, on a
\* database that held two items of the sale from an earlier import
C30_Witness ==
  /\ MigrateSalesReturned
  /\ db.nextId > 6
  /\ FamilyRecord("VENDAS").cod[1] = "PX"
  /\ FamilyRecord("VENDAS").cod[4] = "PX"
  /\ FamilyRecord("VENDAS").cod[7] = "P1"
  /\ Cardinality(Populated(FamilyRecord("PEDIDOS"))) = 2
  /\ pl.sum.saleItems = 1
  /\ pl.sum.orderItems = 1
  /\ Len(pl.sum.mismatches) = 3

====
